---- MODULE Spec2Model ----
(***************************************************************************)
(* Model of fix_malformed_assignments.py: the line-oriented repair scan    *)
(* of fix_malformed_assignments_in_file and the per-file loop of main.     *)
(*                                                                         *)
(* Text is modelled character by character: a string is a sequence of      *)
(* one-character strings, a file on disk is one such sequence, and the     *)
(* list returned by readlines() is a sequence of them.  List indices keep  *)
(* the source's 0-based numbering through At(ls, k).                       *)
(***************************************************************************)
EXTENDS Integers, Sequences, FiniteSets, TLC

(***************************************************************************)
(* Characters and the string methods the scan uses.                        *)
(***************************************************************************)
Lower ==
    {"a", "b", "c", "d", "e", "f", "g", "h", "i", "j", "k", "l", "m",
     "n", "o", "p", "q", "r", "s", "t", "u", "v", "w", "x", "y", "z"}

Upper ==
    {"A", "B", "C", "D", "E", "F", "G", "H", "I", "J", "K", "L", "M",
     "N", "O", "P", "Q", "R", "S", "T", "U", "V", "W", "X", "Y", "Z"}

Digit ==
    {"0", "1", "2", "3", "4", "5", "6", "7", "8", "9"}

\* \s of the regular expressions, and what str.strip() removes
Whitespace ==
    {" ", "\t", "\n"}

\* [a-zA-Z_]
IdentStart ==
    Lower \cup Upper \cup {"_"}

\* [a-zA-Z0-9_]
IdentChar ==
    IdentStart \cup Digit

\* ['+', '(', ')', '$', '/']
ExprChars ==
    {"+", "(", ")", "$", "/"}

\* lines[k] with the source's 0-based index
At(ls, k) ==
    ls[k + 1]

\* the first index >= k of s whose character is not in C (Len(s) + 1 if none):
\* what a greedy C* consumes from k
RECURSIVE SkipWhile(_, _, _)
SkipWhile(s, k, C) ==
    IF k <= Len(s) /\ s[k] \in C THEN SkipWhile(s, k + 1, C) ELSE k

\* the last index <= k of s whose character is not in C (0 if none)
RECURSIVE SkipBack(_, _, _)
SkipBack(s, k, C) ==
    IF k >= 1 /\ s[k] \in C THEN SkipBack(s, k - 1, C) ELSE k

\* str.strip()
strip(s) ==
    LET a == SkipWhile(s, 1, Whitespace)
        b == SkipBack(s, Len(s), Whitespace)
    IN  IF a > b THEN <<>> ELSE SubSeq(s, a, b)

\* str.startswith(p)
startswith(s, p) ==
    Len(s) >= Len(p) /\ SubSeq(s, 1, Len(p)) = p

\* str.endswith(p)
endswith(s, p) ==
    Len(s) >= Len(p) /\ SubSeq(s, Len(s) - Len(p) + 1, Len(s)) = p

\* str.isalnum(): non-empty and every character alphanumeric
isalnum(s) ==
    s # <<>> /\ \A k \in 1..Len(s) : s[k] \in Lower \cup Upper \cup Digit

\* s.replace(c, ''): s without the occurrences of character c
RECURSIVE remove(_, _)
remove(s, c) ==
    IF s = <<>> THEN <<>>
    ELSE IF Head(s) = c THEN remove(Tail(s), c)
    ELSE <<Head(s)>> \o remove(Tail(s), c)

(***************************************************************************)
(* The regular expressions.  Every class of a pattern is disjoint from the *)
(* next thing it must match, so greedy matching decides them.  The result  *)
(* of a match is a record: ok, and the groups (indent, var_name).          *)
(***************************************************************************)
NoMatch ==
    [ok |-> FALSE, indent |-> <<>>, var_name |-> <<>>]

\* ^(\s*)([a-zA-Z_][a-zA-Z0-9_]*)\s*=\s*  followed by `tail` (a literal,
\* possibly empty), then \s*$
reAssignTo(s, tail) ==
    LET a == SkipWhile(s, 1, Whitespace)
        b == SkipWhile(s, a, IdentChar)
        c == SkipWhile(s, b, Whitespace)
        d == SkipWhile(s, c + 1, Whitespace)
        e == d + Len(tail)
        f == SkipWhile(s, e, Whitespace)
    IN  IF /\ a <= Len(s)
           /\ s[a] \in IdentStart
           /\ c <= Len(s)
           /\ s[c] = "="
           /\ e <= Len(s) + 1
           /\ SubSeq(s, d, e - 1) = tail
           /\ f = Len(s) + 1
        THEN [ok |-> TRUE, indent |-> SubSeq(s, 1, a - 1),
              var_name |-> SubSeq(s, a, b - 1)]
        ELSE NoMatch

\* r'^(\s*)([a-zA-Z_][a-zA-Z0-9_]*)\s*=\s*\[\s*$'
reArrayOpen(s) ==
    reAssignTo(s, <<"[">>)

\* r'^(\s*)([a-zA-Z_][a-zA-Z0-9_]*)\s*=\s*$'
reIncomplete(s) ==
    reAssignTo(s, <<>>)

\* ^[a-zA-Z_][a-zA-Z0-9_]*\s* followed by one character of ops
reIdentThen(s, ops) ==
    LET b == SkipWhile(s, 1, IdentChar)
        c == SkipWhile(s, b, Whitespace)
    IN  /\ s # <<>>
        /\ s[1] \in IdentStart
        /\ c <= Len(s)
        /\ s[c] \in ops

\* r'^[a-zA-Z_][a-zA-Z0-9_]*\s*='
reAssignment(s) ==
    reIdentThen(s, {"="})

\* r'^[a-zA-Z_][a-zA-Z0-9_]*\s*[=+]'
reAssignOrAppend(s) ==
    reIdentThen(s, {"=", "+"})

(***************************************************************************)
(* String constants of the source.                                         *)
(***************************************************************************)
\* '# Initialize as empty array since Brave components have been removed'
MARKER ==
    <<"#", " ", "I", "n", "i", "t", "i", "a", "l", "i", "z", "e", " ", "a",
      "s", " ", "e", "m", "p", "t", "y", " ", "a", "r", "r", "a", "y", " ",
      "s", "i", "n", "c", "e", " ", "B", "r", "a", "v", "e", " ", "c", "o",
      "m", "p", "o", "n", "e", "n", "t", "s", " ", "h", "a", "v", "e", " ",
      "b", "e", "e", "n", " ", "r", "e", "m", "o", "v", "e", "d">>

KW_IF ==
    <<"i", "f">>

KW_FOREACH ==
    <<"f", "o", "r", "e", "a", "c", "h">>

KW_DECLARE_ARGS ==
    <<"d", "e", "c", "l", "a", "r", "e", "_", "a", "r", "g", "s">>

(***************************************************************************)
(* File I/O: f.readlines() and f.writelines(new_lines).                    *)
(***************************************************************************)
\* the index of the first "\n" of text at or after k (Len(text) + 1 if none)
RECURSIVE FindNewline(_, _)
FindNewline(text, k) ==
    IF k > Len(text) \/ text[k] = "\n" THEN k ELSE FindNewline(text, k + 1)

\* the lines of a file's text, each kept with its line terminator
RECURSIVE readlines(_)
readlines(text) ==
    IF text = <<>> THEN <<>>
    ELSE LET nl == FindNewline(text, 1)
         IN  IF nl > Len(text) THEN <<text>>
             ELSE <<SubSeq(text, 1, nl)>>
                      \o readlines(SubSeq(text, nl + 1, Len(text)))

\* the text written: the lines one after the other, nothing added
RECURSIVE writelines(_)
writelines(ls) ==
    IF ls = <<>> THEN <<>> ELSE Head(ls) \o writelines(Tail(ls))

(***************************************************************************)
(* The lines the scan emits (the f-strings of the three patterns).         *)
(***************************************************************************)
\* a variant of AssignLine that ends the line after the equals sign and
\* puts the value on a line of its own
AssignLine_split(indent, var_name, value) ==
    indent \o var_name \o <<" ", "=", "\n">> \o value \o <<"\n">>

\* f"{indent}{var_name} = {value}\n"
AssignLine(indent, var_name, value) ==
    indent \o var_name \o <<" ", "=", " ">> \o value \o <<"\n">>

\* "{value}" in double quotes
Quoted(value) ==
    <<"\"">> \o value \o <<"\"">>

\* a variant of Pattern1Value that passes only array literals through
Pattern1Value_arrayonly(d) ==
    IF startswith(d, <<"[">>)
    THEN d
    ELSE Quoted(d)

\* Pattern 1: the value assigned for dangling value d
Pattern1Value(d) ==
    IF startswith(d, <<"[">>) \/ startswith(d, <<"\"">>)
    THEN d
    ELSE Quoted(d)

\* a variant of Pattern2Value that assigns a quoted value directly, as
\* Pattern 1 does
Pattern2Value_direct(d) ==
    IF startswith(d, <<"\"">>) \/ startswith(d, <<"[">>)
    THEN d
    ELSE IF \/ \E k \in 1..Len(d) : d[k] \in ExprChars
            \/ isalnum(remove(remove(d, "_"), "."))
         THEN d
         ELSE Quoted(d)

\* Pattern 2: the value assigned for dangling value d
Pattern2Value(d) ==
    IF startswith(d, <<"\"">>) \/ startswith(d, <<"[">>)
    THEN IF startswith(d, <<"[">>)
         THEN d
         ELSE <<"[", " ">> \o d \o <<" ", "]">>
    ELSE IF \/ \E k \in 1..Len(d) : d[k] \in ExprChars
            \/ isalnum(remove(remove(d, "_"), "."))
         THEN d
         ELSE Quoted(d)

\* a variant of Pattern3Value that quotes every value
Pattern3Value_quoteall(d) ==
    Quoted(d)

\* Pattern 3: the value assigned for dangling value d
Pattern3Value(d) ==
    IF startswith(d, <<"[">>) \/ startswith(d, <<"\"">>)
    THEN d
    ELSE Quoted(d)

(***************************************************************************)
(* State.                                                                  *)
(*   disk            the text of every file, by path                       *)
(*   gni_files       main: the list find_gni_files returned                *)
(*   file_idx        main: 0-based position of the for loop in gni_files   *)
(*   modified_count  main: the counter                                     *)
(*   pc              "main" between two calls, "scan" inside the while     *)
(*                   loop of fix_malformed_assignments_in_file             *)
(*   file_path, lines, new_lines, i, modified                              *)
(*                   the locals of fix_malformed_assignments_in_file       *)
(*   origin          for each element of new_lines, where it comes from:   *)
(*                   kind "copy" and idx k for the verbatim lines[k],      *)
(*                   kind "fix" and idx n for the line the n-th fix of     *)
(*                   this call emitted                                     *)
(*   fixed           the "Fixed ..." messages printed during the current   *)
(*                   call: which pattern, for which variable, at which i   *)
(*   visited         the values i had at the start of the iterations of    *)
(*                   the while loop of the current call, in order          *)
(*   calls           one record per finished call: the path, whether the   *)
(*                   file was read, the lines read, the lines built, the   *)
(*                   fixes, the write ("none", "ok", "failed") and the     *)
(*                   value returned                                        *)
(*   writes          one record per open(file_path, 'w'): path, the lines  *)
(*                   handed to writelines, whether the write succeeded     *)
(*   run             the number of the current invocation of the script    *)
(*   pending         the invocations of the script still to come: for      *)
(*                   each, the list its find_gni_files returns             *)
(* and, for the other scripts of the repository (idle while                *)
(* fix_malformed_assignments.py runs):                                     *)
(*   walked          nuclear_brave_to_luxxle.py, main: the paths rglob has *)
(*                   yielded so far                                        *)
(*   files_processed, files_updated                                        *)
(*                   nuclear_brave_to_luxxle.py, main: the two counters    *)
(*   args            comment_components.py, main: the parsed options       *)
(*                   backup and dry_run                                    *)
(*   files_to_process                                                      *)
(*                   comment_components.py, main: the list of files        *)
(***************************************************************************)
VARIABLES disk, gni_files, file_idx, modified_count, pc, file_path, lines,
          new_lines, i, modified, origin, fixed, visited, calls, writes, run,
          pending, walked, files_processed, files_updated, args,
          files_to_process

vars ==
    <<disk, gni_files, file_idx, modified_count, pc, file_path, lines,
      new_lines, i, modified, origin, fixed, visited, calls, writes, run,
      pending, walked, files_processed, files_updated, args,
      files_to_process>>

mainVars ==
    <<gni_files, file_idx, modified_count, run, pending>>

\* the locals of the per-file function and what is recorded of its scan
scanVars ==
    <<file_path, lines, new_lines, i, modified, origin, fixed, visited>>

\* the state of nuclear_brave_to_luxxle.py and of comment_components.py
otherVars ==
    <<walked, files_processed, files_updated, args, files_to_process>>

(***************************************************************************)
(* The conditions of the three patterns at position k of ls.               *)
(***************************************************************************)
\* a variant of IsDangling that accepts an assignment as a dangling value
IsDangling_assignments(d) ==
    /\ d # <<>>
    /\ ~startswith(d, <<"#">>)
    /\ ~startswith(d, KW_IF)
    /\ ~startswith(d, KW_FOREACH)

\* the test both Pattern 1 and Pattern 2 apply to the stripped line after ]
IsDangling(d) ==
    /\ d # <<>>
    /\ ~startswith(d, <<"#">>)
    /\ ~startswith(d, KW_IF)
    /\ ~startswith(d, KW_FOREACH)
    /\ ~reAssignment(d)

\* Pattern 1 fires at k
Pattern1At(ls, k) ==
    /\ reArrayOpen(At(ls, k)).ok
    /\ k + 1 < Len(ls)
    /\ strip(At(ls, k + 1)) = <<"]">>
    /\ k + 2 < Len(ls)
    /\ IsDangling(strip(At(ls, k + 2)))

\* Pattern 2 fires at k (it is tried only when Pattern 1 did not fire)
Pattern2At(ls, k) ==
    /\ ~Pattern1At(ls, k)
    /\ startswith(strip(At(ls, k)), MARKER)
    /\ k + 1 < Len(ls)
    /\ reArrayOpen(At(ls, k + 1)).ok
    /\ k + 2 < Len(ls)
    /\ strip(At(ls, k + 2)) = <<"]">>
    /\ k + 3 < Len(ls)
    /\ IsDangling(strip(At(ls, k + 3)))

\* the outer test of Pattern 3 on the stripped current line
IsExpression(stripped) ==
    /\ stripped # <<>>
    /\ ~startswith(stripped, <<"#">>)
    /\ ~startswith(stripped, KW_IF)
    /\ ~startswith(stripped, KW_FOREACH)
    /\ ~startswith(stripped, KW_DECLARE_ARGS)
    /\ ~startswith(stripped, <<"}">>)
    /\ ~startswith(stripped, <<"{">>)
    /\ ~reAssignOrAppend(stripped)

\* Pattern 3 fires at k (it is tried only when Patterns 1 and 2 did not fire):
\* the if branch (previous line is ] and k > 1) only looks back and changes
\* nothing; the elif branch fires on an incomplete assignment
Pattern3At(ls, k) ==
    /\ ~Pattern1At(ls, k)
    /\ ~Pattern2At(ls, k)
    /\ IsExpression(strip(At(ls, k)))
    /\ k > 0
    /\ ~(strip(At(ls, k - 1)) = <<"]">> /\ k > 1)
    /\ reIncomplete(strip(At(ls, k - 1))).ok

(***************************************************************************)
(* Initial states: main has listed the .gni files of the directory; each   *)
(* file holds up to MaxLines lines drawn from Pool.                        *)
(***************************************************************************)
MaxLines ==
    4

LnOpener ==
    <<" ", " ", "x", " ", "=", " ", "[", "\n">>

LnCloser ==
    <<"]", "\n">>

LnMarker ==
    MARKER \o <<"\n">>

LnBare ==
    <<"f", "o", "o", "\n">>

LnQuoted ==
    <<"\"", "l", "i", "t", "\"", "\n">>

LnArray ==
    <<"[", " ", "\"", "a", "\"", " ", "]", "\n">>

LnExpr ==
    <<"a", "+", "b", "\n">>

LnIncomplete ==
    <<" ", " ", "z", " ", "=", "\n">>

LnIf ==
    <<"i", "f", " ", "(", "c", ")", " ", "{", "\n">>

LnDeclareArgs ==
    <<"d", "e", "c", "l", "a", "r", "e", "_", "a", "r", "g", "s", "(", ")",
      " ", "{", "\n">>

Pool ==
    {LnOpener, LnCloser, LnMarker, LnBare, LnQuoted, LnArray, LnExpr,
     LnIncomplete, LnIf, LnDeclareArgs}

\* every list of at most n lines of P
Files(P, n) ==
    UNION {[1..m -> P] : m \in 0..n}

\* the state before the first call of a script's main
InitCall ==
    /\ file_path = ""
    /\ lines = <<>>
    /\ new_lines = <<>>
    /\ i = 0
    /\ modified = FALSE
    /\ origin = <<>>
    /\ fixed = <<>>
    /\ visited = <<>>
    /\ calls = <<>>
    /\ writes = <<>>
    /\ file_idx = 0
    /\ modified_count = 0
    /\ run = 1
    /\ walked = {}
    /\ files_processed = 0
    /\ files_updated = 0

\* comment_components.py is not running
InitNoArgs ==
    /\ args = [backup |-> FALSE, dry_run |-> FALSE]
    /\ files_to_process = <<>>

InitLocals ==
    /\ pc = "main"
    /\ InitCall
    /\ InitNoArgs

\* one invocation on a directory that holds one file
Init ==
    /\ gni_files = <<"a.gni">>
    /\ pending = <<>>
    /\ \E ls \in Files(Pool, MaxLines) :
           disk = [p \in {"a.gni"} |-> writelines(ls)]
    /\ InitLocals

(***************************************************************************)
(* fix_malformed_assignments_in_file, called by main's for loop.           *)
(***************************************************************************)
\* a variant of FreshModified that keeps the flag of the previous call
FreshModified_stale ==
    modified

\* the values the scan starts from
FreshModified ==
    FALSE

FreshNewLines ==
    <<>>

FreshI ==
    0

\* main calls the function on the next file; the file is read
ReadOk ==
    /\ pc = "main"
    /\ file_idx < Len(gni_files)
    /\ file_path' = At(gni_files, file_idx)
    /\ lines' = readlines(disk[At(gni_files, file_idx)])
    /\ modified' = FreshModified
    /\ new_lines' = FreshNewLines
    /\ i' = FreshI
    /\ origin' = <<>>
    /\ fixed' = <<>>
    /\ visited' = <<>>
    /\ pc' = "scan"
    /\ UNCHANGED otherVars
    /\ UNCHANGED <<disk, mainVars, calls, writes>>

\* a variant of Counted that counts every file
Counted_always(ret, count) ==
    count + 1

\* main: if fix_malformed_assignments_in_file(file_path): modified_count += 1
Counted(ret, count) ==
    IF ret THEN count + 1 ELSE count

\* a variant of ReadErrorResult that reports the file as modified
ReadErrorResult_true ==
    TRUE

\* what the function returns from its except branch when reading raised
ReadErrorResult ==
    FALSE

\* main calls the function on the next file; reading raises: the function
\* returns False and main goes on with the next file
ReadFail ==
    /\ pc = "main"
    /\ file_idx < Len(gni_files)
    /\ file_path' = At(gni_files, file_idx)
    /\ calls' = Append(calls, [file_path |-> At(gni_files, file_idx),
                               run |-> run, read |-> FALSE, lines |-> <<>>,
                               new_lines |-> <<>>, fixed |-> <<>>,
                               wrote |-> "none", ret |-> ReadErrorResult])
    /\ modified_count' = Counted(ReadErrorResult, modified_count)
    /\ file_idx' = file_idx + 1
    /\ UNCHANGED otherVars
    /\ UNCHANGED <<disk, gni_files, pc, lines, new_lines, i,
                   modified, origin, fixed, visited, writes, run, pending>>

\* a variant of Pattern1Advance that skips the two array lines only
Pattern1Advance_two ==
    3 - 1

\* a variant of Pattern1Advance that also steps over the line after the value
Pattern1Advance_four ==
    3 + 1

\* a variant of Pattern2Advance that steps over the marker line only
Pattern2Advance_one ==
    4 - 3

\* how far each pattern advances i
Pattern1Advance ==
    3

Pattern2Advance ==
    4

Pattern3Advance ==
    1

\* one iteration of the while loop in which Pattern 1 fires
Pattern1 ==
    /\ pc = "scan"
    /\ i < Len(lines)
    /\ Pattern1At(lines, i)
    /\ LET match == reArrayOpen(At(lines, i))
           dangling_line == strip(At(lines, i + 2))
       IN  /\ new_lines' = Append(new_lines,
                  AssignLine(match.indent, match.var_name,
                             Pattern1Value(dangling_line)))
           /\ origin' = Append(origin, [kind |-> "fix", idx |-> Len(fixed) + 1])
           /\ fixed' = Append(fixed, [pattern |-> 1, var_name |-> match.var_name,
                                      at |-> i])
    /\ i' = i + Pattern1Advance
    /\ modified' = TRUE
    /\ visited' = Append(visited, i)
    /\ UNCHANGED otherVars
    /\ UNCHANGED <<disk, mainVars, pc, file_path, lines, calls, writes>>

\* one iteration of the while loop in which Pattern 2 fires
Pattern2 ==
    /\ pc = "scan"
    /\ i < Len(lines)
    /\ Pattern2At(lines, i)
    /\ LET match == reArrayOpen(At(lines, i + 1))
           dangling_line == strip(At(lines, i + 3))
       IN  /\ new_lines' = Append(new_lines,
                  AssignLine(match.indent, match.var_name,
                             Pattern2Value(dangling_line)))
           /\ origin' = Append(origin, [kind |-> "fix", idx |-> Len(fixed) + 1])
           /\ fixed' = Append(fixed, [pattern |-> 2, var_name |-> match.var_name,
                                      at |-> i])
    /\ i' = i + Pattern2Advance
    /\ modified' = TRUE
    /\ visited' = Append(visited, i)
    /\ UNCHANGED otherVars
    /\ UNCHANGED <<disk, mainVars, pc, file_path, lines, calls, writes>>

\* a variant of PopAppend that leaves the last element in place
PopAppend_nopop(list, x) ==
    Append(list, x)

\* list.pop() followed by list.append(x)
PopAppend(list, x) ==
    Append(SubSeq(list, 1, Len(list) - 1), x)

\* one iteration of the while loop in which Pattern 3 fires: the last line
\* of new_lines is removed and the completed assignment appended
Pattern3 ==
    /\ pc = "scan"
    /\ i < Len(lines)
    /\ Pattern3At(lines, i)
    /\ new_lines # <<>>
    /\ LET match == reIncomplete(strip(At(lines, i - 1)))
           stripped == strip(At(lines, i))
       IN  /\ new_lines' = PopAppend(new_lines,
                  AssignLine(match.indent, match.var_name,
                             Pattern3Value(stripped)))
           /\ origin' = PopAppend(origin, [kind |-> "fix", idx |-> Len(fixed) + 1])
           /\ fixed' = Append(fixed, [pattern |-> 3, var_name |-> match.var_name,
                                      at |-> i])
    /\ i' = i + Pattern3Advance
    /\ modified' = TRUE
    /\ visited' = Append(visited, i)
    /\ UNCHANGED otherVars
    /\ UNCHANGED <<disk, mainVars, pc, file_path, lines, calls, writes>>

\* a variant of CopiedLine that normalises the line's whitespace
CopiedLine_stripped(line) ==
    strip(line) \o <<"\n">>

\* new_lines.append(line): the line as it was read
CopiedLine(line) ==
    line

\* one iteration of the while loop in which no pattern fires
CopyLine ==
    /\ pc = "scan"
    /\ i < Len(lines)
    /\ ~Pattern1At(lines, i)
    /\ ~Pattern2At(lines, i)
    /\ ~Pattern3At(lines, i)
    /\ new_lines' = Append(new_lines, CopiedLine(At(lines, i)))
    /\ origin' = Append(origin, [kind |-> "copy", idx |-> i])
    /\ i' = i + 1
    /\ visited' = Append(visited, i)
    /\ UNCHANGED otherVars
    /\ UNCHANGED <<disk, mainVars, pc, file_path, lines, modified, fixed,
                   calls, writes>>

\* the function returns ret to main, which counts a True and goes on
Return(ret, wrote) ==
    /\ calls' = Append(calls, [file_path |-> file_path, run |-> run,
                               read |-> TRUE, lines |-> lines,
                               new_lines |-> new_lines, fixed |-> fixed,
                               wrote |-> wrote, ret |-> ret])
    /\ modified_count' = Counted(ret, modified_count)
    /\ file_idx' = file_idx + 1
    /\ pc' = "main"
    /\ UNCHANGED otherVars
    /\ UNCHANGED <<gni_files, file_path, lines, new_lines, i, modified,
                   origin, fixed, visited, run, pending>>

\* a variant of ShouldWrite that tests the list built instead of the flag
ShouldWrite_nonempty ==
    new_lines # <<>>

\* whether the function writes the file after the loop
ShouldWrite ==
    modified

\* the loop is over and a pattern fired: the file is written
WriteOk ==
    /\ pc = "scan"
    /\ ~(i < Len(lines))
    /\ ShouldWrite
    /\ disk' = [disk EXCEPT ![file_path] = writelines(new_lines)]
    /\ writes' = Append(writes, [file_path |-> file_path, run |-> run,
                                 content |-> new_lines, ok |-> TRUE])
    /\ Return(TRUE, "ok")

\* what a failed write can leave in the file: its old text when
\* open(file_path, 'w') raised; when open succeeded (the file is truncated)
\* and writelines or the close raised, a part of the new text, taken here
\* at line boundaries; the whole new text when only the print that follows
\* the write raised
FailedWriteTexts(old, ls) ==
    {old} \cup {writelines(SubSeq(ls, 1, n)) : n \in 0..Len(ls)}

\* the loop is over and a pattern fired, but writing raises: the error is
\* printed and the function returns False
WriteFail ==
    /\ pc = "scan"
    /\ ~(i < Len(lines))
    /\ ShouldWrite
    /\ \E text \in FailedWriteTexts(disk[file_path], new_lines) :
           disk' = [disk EXCEPT ![file_path] = text]
    /\ writes' = Append(writes, [file_path |-> file_path, run |-> run,
                                 content |-> new_lines, ok |-> FALSE])
    /\ Return(FALSE, "failed")

\* the loop is over and no pattern fired
NoChange ==
    /\ pc = "scan"
    /\ ~(i < Len(lines))
    /\ ~ShouldWrite
    /\ UNCHANGED <<disk, writes>>
    /\ Return(FALSE, "none")

\* main has gone through its list and ends; the script is started again
Rerun ==
    /\ pc = "main"
    /\ ~(file_idx < Len(gni_files))
    /\ pending # <<>>
    /\ gni_files' = Head(pending)
    /\ pending' = Tail(pending)
    /\ run' = run + 1
    /\ file_idx' = 0
    /\ modified_count' = 0
    /\ UNCHANGED otherVars
    /\ UNCHANGED <<disk, pc, file_path, lines, new_lines, i, modified,
                   origin, fixed, visited, calls, writes>>

Next ==
    \/ ReadOk
    \/ ReadFail
    \/ Pattern1
    \/ Pattern2
    \/ Pattern3
    \/ CopyLine
    \/ WriteOk
    \/ WriteFail
    \/ NoChange

Spec ==
    Init /\ [][Next]_vars

(***************************************************************************)
(* A second specification: the script is run twice on a directory whose    *)
(* one file holds one malformed shape (the opener, closer and marker       *)
(* lines of Pattern 1 or 2, or the incomplete line of Pattern 3) followed  *)
(* by a value line drawn from Values and by up to MaxContext further       *)
(* lines of Pool.                                                          *)
(***************************************************************************)
MaxContext ==
    1

\* bar_var
VBarVar ==
    <<"b", "a", "r", "_", "v", "a", "r", "\n">>

\* a.b
VDotted ==
    <<"a", ".", "b", "\n">>

\* _
VUnderscore ==
    <<"_", "\n">>

\* "literal"
VLiteral ==
    <<"\"", "l", "i", "t", "e", "r", "a", "l", "\"", "\n">>

\* [ "a", "b" ]
VArrayAB ==
    <<"[", " ", "\"", "a", "\"", ",", " ", "\"", "b", "\"", " ", "]", "\n">>

\* [
VBracket ==
    <<"[", "\n">>

\* a b
VText ==
    <<"a", " ", "b", "\n">>

\* a-b
VDash ==
    <<"a", "-", "b", "\n">>

\* f(x)
VCall ==
    <<"f", "(", "x", ")", "\n">>

\* $v
VSigil ==
    <<"$", "v", "\n">>

\* //x:y
VPath ==
    <<"/", "/", "x", ":", "y", "\n">>

\* iffy
VIffy ==
    <<"i", "f", "f", "y", "\n">>

\* foreach(i, l) {
VForeach ==
    <<"f", "o", "r", "e", "a", "c", "h", "(", "i", ",", " ", "l", ")", " ",
      "{", "\n">>

\* }
VBraceClose ==
    <<"}", "\n">>

\* {
VBraceOpen ==
    <<"{", "\n">>

\* # c
VComment ==
    <<"#", " ", "c", "\n">>

\* (an empty line)
VEmpty ==
    <<"\n">>

\* v = 1
VAssigned ==
    <<"v", " ", "=", " ", "1", "\n">>

\*     foo_1
VIndented ==
    <<" ", " ", " ", " ", "f", "o", "o", "_", "1", "\n">>

\* x = [
OpenerX ==
    <<"x", " ", "=", " ", "[", "\n">>

\* y = [
OpenerY ==
    <<"y", " ", "=", " ", "[", "\n">>

\* z =
IncompleteZ ==
    <<"z", " ", "=", "\n">>

Values ==
    {LnBare, LnQuoted, LnArray, LnExpr, LnIf, LnDeclareArgs, LnCloser,
     VBarVar, VDotted, VUnderscore, VLiteral, VArrayAB, VBracket, VText,
     VDash, VCall, VSigil, VPath, VIffy, VForeach, VBraceClose, VBraceOpen,
     VComment, VEmpty, VAssigned, VIndented}

Openers ==
    {OpenerX, OpenerY, LnOpener}

Incompletes ==
    {IncompleteZ, LnIncomplete}

\* the three malformed shapes, without their value line
Shapes ==
    {<<o, LnCloser>> : o \in Openers}
        \cup {<<LnMarker, o, LnCloser>> : o \in Openers}
        \cup {<<z>> : z \in Incompletes}

InitScenarios ==
    /\ gni_files = <<"a.gni">>
    /\ pending = <<gni_files>>
    /\ \E shape \in Shapes, v \in Values, ctx \in Files(Pool, MaxContext) :
           disk = [p \in {"a.gni"} |-> writelines(shape \o <<v>> \o ctx)]
    /\ InitLocals

NextRuns ==
    \/ Next
    \/ Rerun

SpecScenarios ==
    InitScenarios /\ [][NextRuns]_vars

(***************************************************************************)
(* A third specification: two directories hold the same two files F1 and   *)
(* F2 (each one malformed shape with a value of BatchValues, or up to      *)
(* MaxBatchLines lines of BatchPool); the script is run on the first,      *)
(* where the walk lists F1 before F2, and then on the second, where it     *)
(* lists F2 before F1.                                                     *)
(***************************************************************************)
MaxBatchLines ==
    2

BatchPool ==
    {LnIncomplete, LnBare, LnQuoted}

BatchValues ==
    {LnBare, LnQuoted, LnIf}

BatchFiles ==
    Files(BatchPool, MaxBatchLines)
        \cup {shape \o <<v>> :
                 shape \in {<<LnOpener, LnCloser>>,
                            <<LnMarker, LnOpener, LnCloser>>},
                 v \in BatchValues}

InitBatch ==
    /\ gni_files = <<"d1/F1.gni", "d1/F2.gni">>
    /\ pending = <<(<<"d2/F2.gni", "d2/F1.gni">>)>>
    /\ \E f1, f2 \in BatchFiles :
           disk = [p \in {"d1/F1.gni", "d1/F2.gni", "d2/F1.gni", "d2/F2.gni"} |->
                       IF p \in {"d1/F1.gni", "d2/F1.gni"}
                       THEN writelines(f1)
                       ELSE writelines(f2)]
    /\ InitLocals

SpecBatch ==
    InitBatch /\ [][NextRuns]_vars

(***************************************************************************)
(* fix_incomplete_assignments.py, the script whose output the repair scan  *)
(* is written for.  Its main and its per-file function have the locals of  *)
(* fix_malformed_assignments.py (gni_files, modified_count, file_path,     *)
(* lines, new_lines, i, modified), held in the same variables; pc is       *)
(* "incomplete_main" between two calls of this script and                  *)
(* "incomplete_scan" inside its while loop.                                *)
(***************************************************************************)
\* j after the inner while loop started at k: the first index at or after
\* k whose stripped line does not start with #
RECURSIVE NextNonComment(_, _)
NextNonComment(ls, k) ==
    IF k < Len(ls) /\ startswith(strip(At(ls, k)), <<"#">>)
    THEN NextNonComment(ls, k + 1)
    ELSE k

\* the line(s) emitted inside the array for one comment line
CommentInArray(indent, comment_line) ==
    LET content == strip(comment_line)
        array_content == strip(SubSeq(content, 4, Len(content) - 2))
    IN  IF startswith(content, <<"#", " ", "[">>) /\ endswith(content, <<"]">>)
        THEN IF array_content # <<>>
             THEN <<indent \o <<" ", " ", "#", " ">> \o array_content \o <<"\n">>>>
             ELSE <<>>
        ELSE IF startswith(content, <<"#">>)
             THEN <<indent \o <<" ", " ">> \o content \o <<"\n">>>>
             ELSE <<indent \o <<" ", " ", "#", " ">> \o content \o <<"\n">>>>

\* the lines emitted for the comment lines ls[from + 1 .. upto], in order
RECURSIVE CommentsInArray(_, _, _, _)
CommentsInArray(indent, ls, from, upto) ==
    IF from >= upto THEN <<>>
    ELSE CommentInArray(indent, ls[from + 1])
             \o CommentsInArray(indent, ls, from + 1, upto)

\* the lines that replace an incomplete assignment and the comment lines
\* lines[from .. upto - 1] that follow it
EmptyArray(indent, var_name, ls, from, upto) ==
    <<indent \o MARKER \o <<"\n">>,
      indent \o var_name \o <<" ", "=", " ", "[", "\n">>>>
        \o CommentsInArray(indent, ls, from, upto)
        \o <<indent \o <<"]", "\n">>>>

\* main of fix_incomplete_assignments.py calls the function on the next
\* file; the file is read
IncompleteReadOk ==
    /\ pc = "incomplete_main"
    /\ file_idx < Len(gni_files)
    /\ file_path' = At(gni_files, file_idx)
    /\ lines' = readlines(disk[At(gni_files, file_idx)])
    /\ modified' = FALSE
    /\ new_lines' = <<>>
    /\ i' = 0
    /\ origin' = <<>>
    /\ fixed' = <<>>
    /\ visited' = <<>>
    /\ pc' = "incomplete_scan"
    /\ UNCHANGED otherVars
    /\ UNCHANGED <<disk, mainVars, calls, writes>>

\* reading raises: the function returns False
IncompleteReadFail ==
    /\ pc = "incomplete_main"
    /\ file_idx < Len(gni_files)
    /\ file_path' = At(gni_files, file_idx)
    /\ calls' = Append(calls, [file_path |-> At(gni_files, file_idx),
                               run |-> run, read |-> FALSE, lines |-> <<>>,
                               new_lines |-> <<>>, fixed |-> <<>>,
                               wrote |-> "none", ret |-> FALSE])
    /\ file_idx' = file_idx + 1
    /\ UNCHANGED otherVars
    /\ UNCHANGED <<disk, gni_files, modified_count, pc, lines, new_lines, i,
                   modified, origin, fixed, visited, writes, run, pending>>

\* one iteration of the while loop on an incomplete assignment: the line
\* and the comment lines after it become an empty array
IncompleteFix ==
    /\ pc = "incomplete_scan"
    /\ i < Len(lines)
    /\ reIncomplete(At(lines, i)).ok
    /\ LET j == NextNonComment(lines, i + 1)
           match == reIncomplete(At(lines, i))
           emitted == EmptyArray(match.indent, match.var_name, lines, i + 1, j)
       IN  /\ new_lines' = new_lines \o emitted
           /\ origin' = origin \o [n \in 1..Len(emitted) |->
                                      [kind |-> "fix", idx |-> Len(fixed) + 1]]
           /\ fixed' = Append(fixed, [pattern |-> 0, var_name |-> match.var_name,
                                      at |-> i])
           /\ i' = j
    /\ modified' = TRUE
    /\ visited' = Append(visited, i)
    /\ UNCHANGED otherVars
    /\ UNCHANGED <<disk, mainVars, pc, file_path, lines, calls, writes>>

\* one iteration of the while loop on any other line
IncompleteCopy ==
    /\ pc = "incomplete_scan"
    /\ i < Len(lines)
    /\ ~reIncomplete(At(lines, i)).ok
    /\ new_lines' = Append(new_lines, At(lines, i))
    /\ origin' = Append(origin, [kind |-> "copy", idx |-> i])
    /\ i' = i + 1
    /\ visited' = Append(visited, i)
    /\ UNCHANGED otherVars
    /\ UNCHANGED <<disk, mainVars, pc, file_path, lines, modified, fixed,
                   calls, writes>>

\* the function returns ret to main of fix_incomplete_assignments.py
IncompleteReturn(ret, wrote) ==
    /\ calls' = Append(calls, [file_path |-> file_path, run |-> run,
                               read |-> TRUE, lines |-> lines,
                               new_lines |-> new_lines, fixed |-> fixed,
                               wrote |-> wrote, ret |-> ret])
    /\ modified_count' = IF ret THEN modified_count + 1 ELSE modified_count
    /\ file_idx' = file_idx + 1
    /\ pc' = "incomplete_main"
    /\ UNCHANGED otherVars
    /\ UNCHANGED <<gni_files, file_path, lines, new_lines, i, modified,
                   origin, fixed, visited, run, pending>>

\* the loop is over and an assignment was fixed: the file is written
IncompleteWriteOk ==
    /\ pc = "incomplete_scan"
    /\ ~(i < Len(lines))
    /\ modified
    /\ disk' = [disk EXCEPT ![file_path] = writelines(new_lines)]
    /\ writes' = Append(writes, [file_path |-> file_path, run |-> run,
                                 content |-> new_lines, ok |-> TRUE])
    /\ IncompleteReturn(TRUE, "ok")

\* the loop is over and an assignment was fixed, but writing raises
IncompleteWriteFail ==
    /\ pc = "incomplete_scan"
    /\ ~(i < Len(lines))
    /\ modified
    /\ \E text \in FailedWriteTexts(disk[file_path], new_lines) :
           disk' = [disk EXCEPT ![file_path] = text]
    /\ writes' = Append(writes, [file_path |-> file_path, run |-> run,
                                 content |-> new_lines, ok |-> FALSE])
    /\ IncompleteReturn(FALSE, "failed")

\* the loop is over and nothing was fixed
IncompleteNoChange ==
    /\ pc = "incomplete_scan"
    /\ ~(i < Len(lines))
    /\ ~modified
    /\ UNCHANGED <<disk, writes>>
    /\ IncompleteReturn(FALSE, "none")

\* fix_incomplete_assignments.py has gone through its list and ends;
\* fix_malformed_assignments.py is started on the same directory
RunMalformed ==
    /\ pc = "incomplete_main"
    /\ ~(file_idx < Len(gni_files))
    /\ pending # <<>>
    /\ gni_files' = Head(pending)
    /\ pending' = Tail(pending)
    /\ run' = run + 1
    /\ file_idx' = 0
    /\ modified_count' = 0
    /\ pc' = "main"
    /\ UNCHANGED otherVars
    /\ UNCHANGED <<disk, file_path, lines, new_lines, i, modified,
                   origin, fixed, visited, calls, writes>>

(***************************************************************************)
(* A fourth specification: fix_incomplete_assignments.py and then          *)
(* fix_malformed_assignments.py are run on a directory whose one file      *)
(* holds up to MaxPipelineLines lines of PipelinePool.                     *)
(***************************************************************************)
MaxPipelineLines ==
    3

\* # [ "a" ]
VCommentedArray ==
    <<"#", " ", "[", " ", "\"", "a", "\"", " ", "]", "\n">>

\* the pool holds no marker line: every array that follows a marker
\* comment in the files that result was created by
\* fix_incomplete_assignments.py
PipelinePool ==
    {LnIncomplete, IncompleteZ, VComment, VCommentedArray, LnBare, LnQuoted,
     LnIf, LnOpener, LnCloser}

InitPipeline ==
    /\ gni_files = <<"a.gni">>
    /\ pending = <<gni_files>>
    /\ \E ls \in Files(PipelinePool, MaxPipelineLines) :
           disk = [p \in {"a.gni"} |-> writelines(ls)]
    /\ pc = "incomplete_main"
    /\ InitCall
    /\ InitNoArgs

NextPipeline ==
    \/ IncompleteReadOk
    \/ IncompleteReadFail
    \/ IncompleteFix
    \/ IncompleteCopy
    \/ IncompleteWriteOk
    \/ IncompleteWriteFail
    \/ IncompleteNoChange
    \/ RunMalformed
    \/ Next

SpecPipeline ==
    InitPipeline /\ [][NextPipeline]_vars

(***************************************************************************)
(* nuclear_brave_to_luxxle.py.  A path is a sequence of characters, as a   *)
(* text is; a byte that is no printable character is one of the two        *)
(* elements "NUL" (a zero byte) and "0xFF" (a byte that utf-8 cannot       *)
(* decode), and "COPYRIGHT_SIGN" stands for the copyright sign.            *)
(***************************************************************************)
UpperLetters ==
    <<"A", "B", "C", "D", "E", "F", "G", "H", "I", "J", "K", "L", "M",
      "N", "O", "P", "Q", "R", "S", "T", "U", "V", "W", "X", "Y", "Z">>

LowerLetters ==
    <<"a", "b", "c", "d", "e", "f", "g", "h", "i", "j", "k", "l", "m",
      "n", "o", "p", "q", "r", "s", "t", "u", "v", "w", "x", "y", "z">>

\* str.lower()
lower(s) ==
    [k \in 1..Len(s) |->
        IF s[k] \in Upper
        THEN LowerLetters[CHOOSE n \in 1..26 : UpperLetters[n] = s[k]]
        ELSE s[k]]

\* p in s, for strings
contains(s, p) ==
    \E k \in 0..(Len(s) - Len(p)) : SubSeq(s, k + 1, k + Len(p)) = p

\* s.replace(old, new): the occurrences of old, found from the left and not
\* overlapping, replaced by new
RECURSIVE replace(_, _, _)
replace(s, old, new) ==
    IF Len(s) < Len(old) THEN s
    ELSE IF startswith(s, old)
         THEN new \o replace(SubSeq(s, Len(old) + 1, Len(s)), old, new)
         ELSE <<Head(s)>> \o replace(Tail(s), old, new)

\* content.split('\n')
RECURSIVE split(_)
split(text) ==
    LET nl == FindNewline(text, 1)
    IN  IF nl > Len(text) THEN <<text>>
        ELSE <<SubSeq(text, 1, nl - 1)>>
                 \o split(SubSeq(text, nl + 1, Len(text)))

\* '\n'.join(ls)
RECURSIVE join(_)
join(ls) ==
    IF ls = <<>> THEN <<>>
    ELSE IF Len(ls) = 1 THEN ls[1]
    ELSE ls[1] \o <<"\n">> \o join(Tail(ls))

\* the index of the last occurrence of character c in s at or before k
\* (0 if none)
RECURSIVE LastIndexOf(_, _, _)
LastIndexOf(s, c, k) ==
    IF k < 1 \/ s[k] = c THEN k ELSE LastIndexOf(s, c, k - 1)

\* Path.suffix: the last dot of the file name and what follows it; empty
\* when the name has no dot, begins with its only dot or ends with a dot
suffix(path) ==
    LET slash == LastIndexOf(path, "/", Len(path))
        name == SubSeq(path, slash + 1, Len(path))
        dot == LastIndexOf(name, ".", Len(name))
    IN  IF dot <= 1 \/ dot = Len(name) THEN <<>>
        ELSE SubSeq(name, dot, Len(name))

skip_extensions ==
    {<<".", "e", "x", "e">>, <<".", "d", "l", "l">>, <<".", "s", "o">>, <<".",
     "d", "y", "l", "i", "b">>, <<".", "a">>, <<".", "l", "i", "b">>, <<".",
     "o", "b", "j">>, <<".", "o">>, <<".", "p", "n", "g">>, <<".", "j", "p",
     "g">>, <<".", "j", "p", "e", "g">>, <<".", "g", "i", "f">>, <<".", "i",
     "c", "o">>, <<".", "s", "v", "g">>, <<".", "w", "e", "b", "p">>, <<".",
     "m", "p", "4">>, <<".", "m", "p", "3">>, <<".", "w", "a", "v">>, <<".",
     "a", "v", "i">>, <<".", "m", "o", "v">>, <<".", "z", "i", "p">>, <<".",
     "t", "a", "r">>, <<".", "g", "z">>, <<".", "b", "z", "2">>, <<".", "7",
     "z">>, <<".", "r", "a", "r">>, <<".", "p", "d", "f">>, <<".", "d", "o",
     "c">>, <<".", "d", "o", "c", "x">>, <<".", "x", "l", "s">>, <<".", "x",
     "l", "s", "x">>, <<".", "t", "t", "f">>, <<".", "o", "t", "f">>, <<".",
     "w", "o", "f", "f">>, <<".", "w", "o", "f", "f", "2">>, <<".", "p", "d",
     "b">>, <<".", "m", "a", "p">>, <<".", "b", "i", "n">>, <<".", "d", "a",
     "t">>}

\* should_skip_file(file_path)
should_skip_file(path) ==
    lower(suffix(path)) \in skip_extensions

\* f.read(8192)
ChunkSize ==
    8192

\* the bytes that are not counted as printable (neither 32..126 nor 9, 10,
\* 13)
NonPrintable ==
    {"NUL", "0xFF"}

\* is_text_file(file_path), for a file that can be read and holds text
is_text_file(text) ==
    LET chunk == SubSeq(text, 1, IF Len(text) < ChunkSize THEN Len(text)
                                  ELSE ChunkSize)
        printable_chars ==
            Cardinality({k \in 1..Len(chunk) : chunk[k] \notin NonPrintable})
    IN  IF chunk = <<>> THEN TRUE
        ELSE IF \E k \in 1..Len(chunk) : chunk[k] = "NUL" THEN FALSE
        ELSE printable_chars * 10 > 7 * Len(chunk)

copyright_patterns ==
    <<<<"c", "o", "p", "y", "r", "i", "g", "h", "t">>, <<"(", "c", ")">>,
      <<"COPYRIGHT_SIGN">>, <<"m", "o", "z", "i", "l", "l", "a", " ", "p",
      "u", "b", "l", "i", "c", " ", "l", "i", "c", "e", "n", "s", "e">>,
      <<"a", "p", "a", "c", "h", "e", " ", "l", "i", "c", "e", "n", "s",
      "e">>, <<"m", "i", "t", " ", "l", "i", "c", "e", "n", "s", "e">>, <<"b",
      "s", "d", " ", "l", "i", "c", "e", "n", "s", "e">>, <<"l", "i", "c",
      "e", "n", "s", "e", ",", " ", "v", ".", " ", "2", ".", "0">>, <<"s",
      "o", "u", "r", "c", "e", " ", "c", "o", "d", "e", " ", "f", "o", "r",
      "m">>>>

\* 'the brave authors'
THE_BRAVE_AUTHORS_LOWER ==
    <<"t", "h", "e", " ", "b", "r", "a", "v", "e", " ", "a", "u", "t", "h",
      "o", "r", "s">>

\* is_copyright_line(line): the loop returns at the first pattern found in
\* the line: False when the line holds 'the brave authors', True otherwise
is_copyright_line(line) ==
    LET line_lower == strip(lower(line))
    IN  IF \E n \in DOMAIN copyright_patterns :
               contains(line_lower, copyright_patterns[n])
        THEN ~contains(line_lower, THE_BRAVE_AUTHORS_LOWER)
        ELSE FALSE

\* the replacements made in a line that is not preserved, in their order
modified_line(line) ==
    LET r1 ==
            replace(line,
                    <<"b", "r", "a", "v", "e">>,
                    <<"l", "u", "x", "x", "l", "e">>)
        r2 ==
            replace(r1,
                    <<"B", "r", "a", "v", "e">>,
                    <<"L", "u", "x", "x", "l", "e">>)
        r3 ==
            replace(r2,
                    <<"B", "R", "A", "V", "E">>,
                    <<"L", "U", "X", "X", "L", "E">>)
        r4 ==
            replace(r3,
                    <<"l", "u", "x", "x", "l", "e", "l", "u", "x", "x", "l", "e">>,
                    <<"l", "u", "x", "x", "l", "e">>)
        r5 ==
            replace(r4,
                    <<"L", "u", "x", "x", "l", "e", "L", "u", "x", "x", "l", "e">>,
                    <<"L", "u", "x", "x", "l", "e">>)
        r6 ==
            replace(r5,
                    <<"L", "U", "X", "X", "L", "E", "L", "U", "X", "X", "L", "E">>,
                    <<"L", "U", "X", "X", "L", "E">>)
        r7 ==
            replace(r6,
                    <<"l", "u", "x", "x", "l", "e", "l", "y">>,
                    <<"b", "r", "a", "v", "e", "l", "y">>)
        r8 ==
            replace(r7,
                    <<"L", "u", "x", "x", "l", "e", "l", "y">>,
                    <<"B", "r", "a", "v", "e", "l", "y">>)
        r9 ==
            replace(r8,
                    <<"l", "u", "x", "x", "l", "e", "r", "y">>,
                    <<"b", "r", "a", "v", "e", "r", "y">>)
        r10 ==
            replace(r9,
                    <<"L", "u", "x", "x", "l", "e", "r", "y">>,
                    <<"B", "r", "a", "v", "e", "r", "y">>)
    IN  r10

\* the list process_file builds from the lines of the content
modified_lines(ls) ==
    [n \in 1..Len(ls) |->
        IF is_copyright_line(ls[n]) THEN ls[n] ELSE modified_line(ls[n])]

\* f.read() with errors='ignore': the bytes that cannot be decoded are left
\* out
decoded(text) ==
    SelectSeq(text, LAMBDA c : c # "0xFF")

\* the record a call of process_file leaves in calls
ProcessRecord(path, read, content, wrote, ret) ==
    [file_path |-> path, run |-> run, read |-> read,
     lines |-> IF read THEN split(content) ELSE <<>>,
     modified_lines |-> IF read THEN modified_lines(split(content)) ELSE <<>>,
     wrote |-> wrote, ret |-> ret]

\* main: process_file returned ret for path, a file rglob had not yet
\* yielded
Processed(path, rec) ==
    /\ walked' = walked \cup {path}
    /\ files_processed' = files_processed + 1
    /\ files_updated' = IF rec.ret THEN files_updated + 1 ELSE files_updated
    /\ calls' = Append(calls, rec)

\* main: rglob yields a file whose extension is in skip_extensions
SkipFile ==
    \E path \in DOMAIN disk \ walked :
        /\ pc = "nuclear_main"
        /\ should_skip_file(path)
        /\ walked' = walked \cup {path}
        /\ UNCHANGED <<disk, files_processed, files_updated, calls, writes>>
        /\ UNCHANGED <<pc, scanVars, mainVars, args, files_to_process>>

\* process_file: is_text_file says no (or could not read the file)
ProcessNotText ==
    \E path \in DOMAIN disk \ walked :
        /\ pc = "nuclear_main"
        /\ ~should_skip_file(path)
        /\ ~is_text_file(disk[path])
        /\ Processed(path, ProcessRecord(path, FALSE, <<>>, "none", FALSE))
        /\ UNCHANGED <<disk, writes>>
        /\ UNCHANGED <<pc, scanVars, mainVars, args, files_to_process>>

\* process_file: opening or reading the file raises; the error is logged
ProcessReadFail ==
    \E path \in DOMAIN disk \ walked :
        /\ pc = "nuclear_main"
        /\ ~should_skip_file(path)
        /\ Processed(path, ProcessRecord(path, FALSE, <<>>, "none", FALSE))
        /\ UNCHANGED <<disk, writes>>
        /\ UNCHANGED <<pc, scanVars, mainVars, args, files_to_process>>

\* process_file: the new content differs and is written
ProcessNuked ==
    \E path \in DOMAIN disk \ walked :
        LET content == decoded(disk[path])
            new_content == join(modified_lines(split(content)))
        IN  /\ pc = "nuclear_main"
            /\ ~should_skip_file(path)
            /\ is_text_file(disk[path])
            /\ new_content # content
            /\ disk' = [disk EXCEPT ![path] = new_content]
            /\ writes' = Append(writes, [file_path |-> path, run |-> run,
                                         content |-> new_content, ok |-> TRUE])
            /\ Processed(path, ProcessRecord(path, TRUE, content, "ok", TRUE))
            /\ UNCHANGED <<pc, scanVars, mainVars, args, files_to_process>>

\* process_file: the new content differs but writing it raises: the file
\* keeps its text (open raised), or holds a leading part of the new one
ProcessWriteFail ==
    \E path \in DOMAIN disk \ walked :
        LET content == decoded(disk[path])
            new_lines_ == modified_lines(split(content))
            new_content == join(new_lines_)
        IN  /\ pc = "nuclear_main"
            /\ ~should_skip_file(path)
            /\ is_text_file(disk[path])
            /\ new_content # content
            /\ \E text \in {disk[path]}
                      \cup {join(SubSeq(new_lines_, 1, n)) :
                               n \in 0..Len(new_lines_)} :
                   disk' = [disk EXCEPT ![path] = text]
            /\ writes' = Append(writes, [file_path |-> path, run |-> run,
                                         content |-> new_content, ok |-> FALSE])
            /\ Processed(path,
                         ProcessRecord(path, TRUE, content, "failed", FALSE))
            /\ UNCHANGED <<pc, scanVars, mainVars, args, files_to_process>>

\* process_file: the new content is the content read
ProcessUnchanged ==
    \E path \in DOMAIN disk \ walked :
        LET content == decoded(disk[path])
            new_content == join(modified_lines(split(content)))
        IN  /\ pc = "nuclear_main"
            /\ ~should_skip_file(path)
            /\ is_text_file(disk[path])
            /\ new_content = content
            /\ Processed(path,
                         ProcessRecord(path, TRUE, content, "none", FALSE))
            /\ UNCHANGED <<disk, writes>>
            /\ UNCHANGED <<pc, scanVars, mainVars, args, files_to_process>>

(***************************************************************************)
(* A fifth specification: nuclear_brave_to_luxxle.py is run on a directory *)
(* that holds a source file of up to MaxNuclearLines lines of NuclearPool  *)
(* (with or without a newline at the end, or with a zero byte or some      *)
(* undecodable bytes in front) and an image.                               *)
(***************************************************************************)
MaxNuclearLines ==
    2

\* // Copyright (c) The Brave Authors.
NCopyrightAuthors ==
    <<"/", "/", " ", "C", "o", "p", "y", "r", "i", "g", "h", "t", " ", "(",
      "c", ")", " ", "T", "h", "e", " ", "B", "r", "a", "v", "e", " ", "A",
      "u", "t", "h", "o", "r", "s", ".">>

\* # Copyright Brave Software
NCopyrightSoftware ==
    <<"#", " ", "C", "o", "p", "y", "r", "i", "g", "h", "t", " ", "B", "r",
      "a", "v", "e", " ", "S", "o", "f", "t", "w", "a", "r", "e">>

\* MIT License, The Brave Authors
NLicenseAuthors ==
    <<"M", "I", "T", " ", "L", "i", "c", "e", "n", "s", "e", ",", " ", "T",
      "h", "e", " ", "B", "r", "a", "v", "e", " ", "A", "u", "t", "h", "o",
      "r", "s">>

\* //brave/x
NBraveDir ==
    <<"/", "/", "b", "r", "a", "v", "e", "/", "x">>

\* Bravely BRAVE
NBravely ==
    <<"B", "r", "a", "v", "e", "l", "y", " ", "B", "R", "A", "V", "E">>

\* luxxlebrave
NLuxxleBrave ==
    <<"l", "u", "x", "x", "l", "e", "b", "r", "a", "v", "e">>

\* foo
NPlain ==
    <<"f", "o", "o">>

NuclearPool ==
    {NCopyrightAuthors, NCopyrightSoftware, NLicenseAuthors, NBraveDir,
     NBravely, NLuxxleBrave, NPlain}

\* a.cc
PathSource ==
    <<"a", ".", "c", "c">>

\* logo.PNG
PathImage ==
    <<"l", "o", "g", "o", ".", "P", "N", "G">>

\* the contents of the source file
NuclearTexts ==
    LET texts == {join(ls) : ls \in Files(NuclearPool, MaxNuclearLines)}
    IN  texts \cup {t \o <<"\n">> : t \in texts}
              \cup {<<"NUL">> \o t : t \in texts}
              \cup {<<"0xFF">> \o t : t \in texts}
              \cup {<<"0xFF", "0xFF", "0xFF", "0xFF">> \o t : t \in texts}

InitNuclear ==
    /\ \E t \in NuclearTexts :
           disk = [p \in {PathSource, PathImage} |->
                       IF p = PathSource THEN t ELSE <<"NUL", "P", "N", "G">>]
    /\ pc = "nuclear_main"
    /\ gni_files = <<>>
    /\ pending = <<>>
    /\ InitCall
    /\ InitNoArgs

NextNuclear ==
    \/ SkipFile
    \/ ProcessNotText
    \/ ProcessReadFail
    \/ ProcessNuked
    \/ ProcessWriteFail
    \/ ProcessUnchanged

SpecNuclear ==
    InitNuclear /\ [][NextNuclear]_vars


(***************************************************************************)
(* comment_components.py.  main's for loop has two steps per file: the     *)
(* backup (pc = "comment_main" before it) and the call of                  *)
(* comment_components_in_file or the dry-run report (pc = "comment_file"   *)
(* before it).  The files that exist are the domain of disk, so that a     *)
(* backup creates a file.  file_idx is the position of the loop in         *)
(* files_to_process; file_path and modified_count are main's.              *)
(***************************************************************************)
\* '/components/'
COMPONENTS ==
    <<"/", "c", "o", "m", "p", "o", "n", "e", "n", "t", "s", "/">>

\* '# Commented out: removed components dependency - using Chromium
\* defaults instead\n'
COMMENTED_OUT ==
    <<"#", " ", "C", "o", "m", "m", "e", "n", "t", "e", "d", " ", "o", "u",
      "t", ":", " ", "r", "e", "m", "o", "v", "e", "d", " ", "c", "o", "m",
      "p", "o", "n", "e", "n", "t", "s", " ", "d", "e", "p", "e", "n", "d",
      "e", "n", "c", "y", " ", "-", " ", "u", "s", "i", "n", "g", " ", "C",
      "h", "r", "o", "m", "i", "u", "m", " ", "d", "e", "f", "a", "u", "l",
      "t", "s", " ", "i", "n", "s", "t", "e", "a", "d", "\n">>

\* '.bak'
BAK ==
    <<".", "b", "a", "k">>

\* str.lstrip()
lstrip(s) ==
    SubSeq(s, SkipWhile(s, 1, Whitespace), Len(s))

\* ' ' * n
spaces(n) ==
    [k \in 1..n |-> " "]

\* the test of comment_components_in_file and of the dry run on a line
NeedsComment(line) ==
    contains(line, COMPONENTS) /\ ~startswith(strip(line), <<"#">>)

\* what comment_components_in_file appends to new_lines for a line
CommentedLine(line) ==
    LET indent == Len(line) - Len(lstrip(line))
    IN  IF NeedsComment(line)
        THEN <<spaces(indent) \o COMMENTED_OUT,
               spaces(indent) \o <<"#", " ">> \o lstrip(line)>>
        ELSE <<line>>

\* new_lines after the for loop over ls
RECURSIVE CommentedLines(_)
CommentedLines(ls) ==
    IF ls = <<>> THEN <<>>
    ELSE CommentedLine(Head(ls)) \o CommentedLines(Tail(ls))

\* the files after path has been created or overwritten with text
WithFile(files, path, text) ==
    [p \in DOMAIN files \cup {path} |-> IF p = path THEN text ELSE files[p]]

\* main: whether the backup is attempted
BackupWanted ==
    args.backup /\ ~args.dry_run

\* main: the backup of the next file is written
BackupOk ==
    /\ pc = "comment_main"
    /\ file_idx < Len(files_to_process)
    /\ BackupWanted
    /\ LET path == At(files_to_process, file_idx)
           backup_path == path \o BAK
       IN  /\ file_path' = path
           /\ disk' = WithFile(disk, backup_path, disk[path])
           /\ writes' = Append(writes, [file_path |-> backup_path, run |-> run,
                                        content |-> disk[path], ok |-> TRUE])
    /\ pc' = "comment_file"
    /\ UNCHANGED <<gni_files, file_idx, modified_count, lines, new_lines, i,
                   modified, origin, fixed, visited, calls, run, pending>>
    /\ UNCHANGED otherVars

\* main: the backup raises, a warning is printed and the loop body goes
\* on: nothing was created (an open raised), or the .bak file holds a
\* leading part of the text (the read, the write or the print raised)
BackupFail ==
    /\ pc = "comment_main"
    /\ file_idx < Len(files_to_process)
    /\ BackupWanted
    /\ LET path == At(files_to_process, file_idx)
           backup_path == path \o BAK
           ls == readlines(disk[path])
       IN  /\ file_path' = path
           /\ \/ /\ disk' = disk
                 /\ writes' = writes
              \/ \E n \in 0..Len(ls) :
                    /\ disk' = WithFile(disk, backup_path,
                                        writelines(SubSeq(ls, 1, n)))
                    /\ writes' = Append(writes,
                           [file_path |-> backup_path, run |-> run,
                            content |-> disk[path], ok |-> FALSE])
    /\ pc' = "comment_file"
    /\ UNCHANGED <<gni_files, file_idx, modified_count, lines, new_lines, i,
                   modified, origin, fixed, visited, calls, run, pending>>
    /\ UNCHANGED otherVars

\* main: no backup is asked for, or this is a dry run
NoBackup ==
    /\ pc = "comment_main"
    /\ file_idx < Len(files_to_process)
    /\ ~BackupWanted
    /\ file_path' = At(files_to_process, file_idx)
    /\ pc' = "comment_file"
    /\ UNCHANGED <<disk, gni_files, file_idx, modified_count, lines, new_lines,
                   i, modified, origin, fixed, visited, calls, writes, run,
                   pending>>
    /\ UNCHANGED otherVars

\* main: the second step of the loop body is over; count is the new value
\* of modified_count and rec the record of what the step did
FileDone(count, rec) ==
    /\ modified_count' = count
    /\ calls' = Append(calls, rec)
    /\ file_idx' = file_idx + 1
    /\ pc' = "comment_main"
    /\ UNCHANGED <<gni_files, file_path, i, origin, fixed, visited, run,
                   pending>>
    /\ UNCHANGED otherVars

\* the record of a call on file_path
CommentRecord(read, wrote, ret) ==
    [file_path |-> file_path, run |-> run, read |-> read,
     before |-> disk[file_path],
     lines |-> IF read THEN readlines(disk[file_path]) ELSE <<>>,
     new_lines |-> IF read THEN CommentedLines(readlines(disk[file_path]))
                   ELSE <<>>,
     wrote |-> wrote, ret |-> ret]

\* comment_components_in_file: reading raises
CommentReadFail ==
    /\ pc = "comment_file"
    /\ ~args.dry_run
    /\ FileDone(modified_count, CommentRecord(FALSE, "none", FALSE))
    /\ UNCHANGED <<disk, writes, lines, new_lines, modified>>

\* comment_components_in_file: lines were commented out and the file is
\* written
CommentWriteOk ==
    /\ pc = "comment_file"
    /\ ~args.dry_run
    /\ lines' = readlines(disk[file_path])
    /\ new_lines' = CommentedLines(lines')
    /\ modified' = \E k \in DOMAIN lines' : NeedsComment(lines'[k])
    /\ modified'
    /\ disk' = [disk EXCEPT ![file_path] = writelines(new_lines')]
    /\ writes' = Append(writes, [file_path |-> file_path, run |-> run,
                                 content |-> new_lines', ok |-> TRUE])
    /\ FileDone(modified_count + 1, CommentRecord(TRUE, "ok", TRUE))

\* comment_components_in_file: lines were commented out but writing raises
CommentWriteFail ==
    /\ pc = "comment_file"
    /\ ~args.dry_run
    /\ lines' = readlines(disk[file_path])
    /\ new_lines' = CommentedLines(lines')
    /\ modified' = \E k \in DOMAIN lines' : NeedsComment(lines'[k])
    /\ modified'
    /\ \E text \in FailedWriteTexts(disk[file_path], new_lines') :
           disk' = [disk EXCEPT ![file_path] = text]
    /\ writes' = Append(writes, [file_path |-> file_path, run |-> run,
                                 content |-> new_lines', ok |-> FALSE])
    /\ FileDone(modified_count, CommentRecord(TRUE, "failed", FALSE))

\* comment_components_in_file: no line needs a comment
CommentNoChange ==
    /\ pc = "comment_file"
    /\ ~args.dry_run
    /\ lines' = readlines(disk[file_path])
    /\ new_lines' = CommentedLines(lines')
    /\ modified' = \E k \in DOMAIN lines' : NeedsComment(lines'[k])
    /\ ~modified'
    /\ UNCHANGED <<disk, writes>>
    /\ FileDone(modified_count, CommentRecord(TRUE, "none", FALSE))

\* main, dry run: the file is read and the lines that would change are
\* printed; a file with such lines is counted
DryRunReport ==
    /\ pc = "comment_file"
    /\ args.dry_run
    /\ lines' = readlines(disk[file_path])
    /\ LET changes_found == \E k \in DOMAIN lines' : NeedsComment(lines'[k])
       IN  FileDone(IF changes_found THEN modified_count + 1
                    ELSE modified_count,
                    CommentRecord(TRUE, "none", changes_found))
    /\ UNCHANGED <<disk, writes, new_lines, modified>>

\* main, dry run: reading raises
DryRunReadFail ==
    /\ pc = "comment_file"
    /\ args.dry_run
    /\ FileDone(modified_count, CommentRecord(FALSE, "none", FALSE))
    /\ UNCHANGED <<disk, writes, lines, new_lines, modified>>

(***************************************************************************)
(* A sixth specification: comment_components.py is run, with any           *)
(* combination of --backup and --dry-run, on BUILD.gn alone or on BUILD.gn *)
(* and x.gni; BUILD.gn holds up to MaxCommentLines lines of CommentPool.   *)
(***************************************************************************)
MaxCommentLines ==
    2

\*   "/components/y",
CDependency ==
    <<" ", " ", "\"", "/", "c", "o", "m", "p", "o", "n", "e", "n", "t", "s",
      "/", "y", "\"", ",", "\n">>

\* (tab)"/components/t"
CTabbed ==
    <<"\t", "\"", "/", "c", "o", "m", "p", "o", "n", "e", "n", "t", "s", "/",
      "t", "\"", "\n">>

\* # "/components/z"
CCommented ==
    <<"#", " ", "\"", "/", "c", "o", "m", "p", "o", "n", "e", "n", "t", "s",
      "/", "z", "\"", "\n">>

CommentPool ==
    {CDependency, CTabbed, CCommented, LnBare}

\* BUILD.gn
PathBuild ==
    <<"B", "U", "I", "L", "D", ".", "g", "n">>

\* x.gni
PathGni ==
    <<"x", ".", "g", "n", "i">>

InitComment ==
    /\ args \in [backup : BOOLEAN, dry_run : BOOLEAN]
    /\ files_to_process \in {<<PathBuild>>, <<PathBuild, PathGni>>}
    /\ \E ls \in Files(CommentPool, MaxCommentLines) :
           disk = [p \in {PathBuild, PathGni} |->
                       IF p = PathBuild THEN writelines(ls) ELSE CDependency]
    /\ pc = "comment_main"
    /\ gni_files = <<>>
    /\ pending = <<>>
    /\ InitCall

NextComment ==
    \/ BackupOk
    \/ BackupFail
    \/ NoBackup
    \/ CommentReadFail
    \/ CommentWriteOk
    \/ CommentWriteFail
    \/ CommentNoChange
    \/ DryRunReport
    \/ DryRunReadFail

SpecComment ==
    InitComment /\ [][NextComment]_vars


(***************************************************************************)
(* Properties.                                                             *)
(***************************************************************************)
Last(seq) ==
    seq[Len(seq)]

\* the call of fix_malformed_assignments_in_file that has just returned
\* read its file (its locals are still those of that call)
Returned ==
    /\ pc = "main"
    /\ calls # <<>>
    /\ Last(calls).read

\* the writes the last call made
WritesOfLastCall ==
    SelectSeq(writes, LAMBDA w : w.run = Last(calls).run
                                 /\ w.file_path = Last(calls).file_path)

\* C1: when no pattern fired during the scan of a file, the list built is
\* the list read, the file is not written (it holds what it held), and the
\* function returns False.
C1_NoPatternUnmodified ==
    (Returned /\ fixed = <<>>) =>
        /\ new_lines = lines
        /\ writes = <<>>
        /\ disk[file_path] = writelines(lines)
        /\ Last(calls).ret = FALSE

\* a file of three lines or more, one of them an array opener, went through
\* the scan without any pattern firing
C1_Witness ==
    /\ Returned
    /\ fixed = <<>>
    /\ Len(lines) >= 3
    /\ \E k \in 0..(Len(lines) - 1) : reArrayOpen(At(lines, k)).ok

\* C2: the file is written if and only if a pattern fired; what is handed
\* to the write is the list built by the scan, a write that succeeds leaves
\* that text in the file and the function returns True; when no pattern
\* fired nothing is written and the function returns False.
C2_WriteIffFired ==
    Returned =>
        /\ (WritesOfLastCall # <<>>) <=> (fixed # <<>>)
        /\ Len(WritesOfLastCall) <= 1
        /\ \A n \in DOMAIN WritesOfLastCall :
               /\ WritesOfLastCall[n].content = new_lines
               /\ WritesOfLastCall[n].ok =>
                      /\ disk[file_path] = writelines(new_lines)
                      /\ Last(calls).ret = TRUE
        /\ (fixed = <<>>) => (Last(calls).ret = FALSE)

\* a pattern fired and the file was rewritten with fewer lines
C2_Witness ==
    /\ Returned
    /\ fixed # <<>>
    /\ Last(calls).ret = TRUE
    /\ disk[file_path] = writelines(new_lines)
    /\ Len(new_lines) < Len(lines)

(***************************************************************************)
(* The shapes of lines, as the specification words them.                   *)
(***************************************************************************)
\* <indent><identifier> = [  with nothing else on the line
IsOpenerLine(line) ==
    reArrayOpen(line).ok

\* the line is exactly ]
IsCloserLine(line) ==
    strip(line) = <<"]">>

\* a bare incomplete assignment  <name> =
IsIncompleteLine(line) ==
    reIncomplete(line).ok

\* the marker comment line
IsMarkerLine(line) ==
    startswith(strip(line), MARKER)

\* v looks like an array literal / like a quoted string
IsBracketed(v) ==
    v # <<>> /\ v[1] = "["

IsQuoted(v) ==
    v # <<>> /\ v[1] = "\""

\* a dangling value of Patterns A and B: non-empty, not a comment, not an
\* if / foreach line, not an assignment
IsEligibleValue(v) ==
    /\ v # <<>>
    /\ v[1] # "#"
    /\ ~startswith(v, <<"i", "f">>)
    /\ ~startswith(v, <<"f", "o", "r", "e", "a", "c", "h">>)
    /\ ~reAssignment(v)

\* the input lines a fix stands for
Covered(fx) ==
    CASE fx.pattern = 1 -> fx.at .. (fx.at + 2)
      [] fx.pattern = 2 -> fx.at .. (fx.at + 3)
      [] fx.pattern = 3 -> (fx.at - 1) .. fx.at

\* the places of new_lines that hold the line emitted by fix f, and those
\* that hold the verbatim copy of lines[k]
PlacesOfFix(f) ==
    {p \in DOMAIN origin : origin[p] = [kind |-> "fix", idx |-> f]}

PlacesOfCopy(k) ==
    {p \in DOMAIN origin : origin[p] = [kind |-> "copy", idx |-> k]}

\* the value i has after the n-th iteration of the while loop
PositionAfter(n) ==
    IF n < Len(visited) THEN visited[n + 1] ELSE i

\* line is an assignment of something to name
IsAssignmentTo(line, name) ==
    startswith(strip(line), name \o <<" ", "=", " ">>)

\* the shape of Pattern A at position k
ShapeA(ls, k) ==
    /\ k + 2 < Len(ls)
    /\ IsOpenerLine(At(ls, k))
    /\ IsCloserLine(At(ls, k + 1))
    /\ IsEligibleValue(strip(At(ls, k + 2)))

\* C3: whenever the scan is at a position k that holds the shape of
\* Pattern A, Pattern A fires there: i advances by 3, the three lines are
\* not copied, exactly one line, an assignment to the identifier of line k,
\* is emitted in their place, and when line k+3 is an unrelated line (one
\* that no fix stands for) it is copied unchanged right after that line.
C3_PatternA ==
    \A n \in DOMAIN visited :
        LET k == visited[n]
            name == reArrayOpen(At(lines, k)).var_name
        IN  ShapeA(lines, k) =>
              /\ PositionAfter(n) = k + 3
              /\ \E f \in DOMAIN fixed :
                   /\ fixed[f] = [pattern |-> 1, var_name |-> name, at |-> k]
                   /\ Cardinality(PlacesOfFix(f)) = 1
                   /\ \A p \in PlacesOfFix(f) :
                        /\ IsAssignmentTo(new_lines[p], name)
                        /\ ( /\ k + 3 < i
                             /\ \A g \in DOMAIN fixed : (k + 3) \notin Covered(fixed[g]) )
                           => /\ p + 1 <= Len(new_lines)
                              /\ origin[p + 1] = [kind |-> "copy", idx |-> k + 3]
                              /\ new_lines[p + 1] = At(lines, k + 3)
              /\ \A j \in k..(k + 2) : PlacesOfCopy(j) = {}

\* Pattern A fired at a position and the unrelated line after its three
\* lines has been copied
C3_Witness ==
    \E f \in DOMAIN fixed :
        /\ fixed[f].pattern = 1
        /\ ShapeA(lines, fixed[f].at)
        /\ fixed[f].at + 3 < i
        /\ PlacesOfCopy(fixed[f].at + 3) # {}

\* C4: the line Pattern A emits is <indent><name> = v when the dangling
\* value v begins with [ or with a double quote, and <indent><name> = "v"
\* otherwise.
C4_PatternAValue ==
    \A f \in DOMAIN fixed :
        fixed[f].pattern = 1 =>
            LET k == fixed[f].at
                m == reArrayOpen(At(lines, k))
                v == strip(At(lines, k + 2))
                head == m.indent \o m.var_name \o <<" ", "=", " ">>
            IN  /\ PlacesOfFix(f) # {}
                /\ \A p \in PlacesOfFix(f) :
                     new_lines[p] =
                        IF IsBracketed(v) \/ IsQuoted(v)
                        THEN head \o v \o <<"\n">>
                        ELSE head \o <<"\"">> \o v \o <<"\"", "\n">>

\* Pattern A fired on a value that is neither bracketed nor quoted and
\* holds a character that is not alphanumeric, and the call has returned
C4_Witness ==
    /\ Returned
    /\ \E f \in DOMAIN fixed :
          LET v == strip(At(lines, fixed[f].at + 2))
          IN  /\ fixed[f].pattern = 1
              /\ ~IsQuoted(v)
              /\ ~IsBracketed(v)
              /\ ~isalnum(v)

\* the shape of Pattern B at position k
ShapeB(ls, k) ==
    /\ k + 3 < Len(ls)
    /\ strip(At(ls, k)) = MARKER
    /\ IsOpenerLine(At(ls, k + 1))
    /\ IsCloserLine(At(ls, k + 2))
    /\ IsEligibleValue(strip(At(ls, k + 3)))

\* v contains one of + ( ) $ /
HasExprChar(v) ==
    \E n \in 1..Len(v) : v[n] \in {"+", "(", ")", "$", "/"}

\* v consists only of alphanumerics, underscores and dots
OnlyWordChars(v) ==
    \A n \in 1..Len(v) : v[n] \in Lower \cup Upper \cup Digit \cup {"_", "."}

\* v holds at least one alphanumeric
HasAlnum(v) ==
    \E n \in 1..Len(v) : v[n] \in Lower \cup Upper \cup Digit

\* what Pattern B does wherever its shape stands, with isRef deciding which
\* unquoted values are references
PatternBRule(isRef(_)) ==
    \A k \in 0..(i - 1) :
        ShapeB(lines, k) =>
            LET name == reArrayOpen(At(lines, k + 1)).var_name
                v == strip(At(lines, k + 3))
                head == name \o <<" ", "=", " ">>
            IN  /\ \E n \in DOMAIN visited :
                      visited[n] = k /\ PositionAfter(n) = k + 4
                /\ \E f \in DOMAIN fixed :
                     /\ fixed[f] = [pattern |-> 2, var_name |-> name, at |-> k]
                     /\ Cardinality(PlacesOfFix(f)) = 1
                     /\ \A p \in PlacesOfFix(f) :
                          strip(new_lines[p]) =
                             IF IsBracketed(v) THEN head \o v
                             ELSE IF IsQuoted(v)
                                  THEN head \o <<"[", " ">> \o v \o <<" ", "]">>
                             ELSE IF HasExprChar(v) \/ isRef(v) THEN head \o v
                             ELSE head \o <<"\"">> \o v \o <<"\"">>
                /\ \A j \in k..(k + 3) : PlacesOfCopy(j) = {}

\* C5 as stated: wherever marker, opener, closer and an eligible value v
\* stand on four consecutive lines, the four are replaced by one line and
\* i advances by 4; the line is <name> = v for a bracketed v, <name> = [ v ]
\* for a quoted v, <name> = v for an unquoted v that contains one of
\* + ( ) $ / or consists only of alphanumerics, underscores and dots, and
\* <name> = "v" for anything else.
C5_PatternB_AsStated ==
    PatternBRule(OnlyWordChars)

\* C5 as amended: the same, where an unquoted value is a reference when it
\* consists only of alphanumerics, underscores and dots and holds at least
\* one alphanumeric (a value made of underscores and dots alone is quoted).
C5_PatternB ==
    PatternBRule(LAMBDA v : OnlyWordChars(v) /\ HasAlnum(v))

\* Pattern B fired on a value made of underscores and dots alone, and
\* emitted it in quotes
C5_Witness ==
    \E f \in DOMAIN fixed :
        LET v == strip(At(lines, fixed[f].at + 3))
        IN  /\ fixed[f].pattern = 2
            /\ ShapeB(lines, fixed[f].at)
            /\ OnlyWordChars(v)
            /\ ~HasAlnum(v)
            /\ \E p \in PlacesOfFix(f) :
                  new_lines[p][Len(new_lines[p]) - 1] = "\""

\* the stripped line that fix fx took as its dangling value
DanglingOf(fx) ==
    CASE fx.pattern = 1 -> strip(At(lines, fx.at + 2))
      [] fx.pattern = 2 -> strip(At(lines, fx.at + 3))
      [] fx.pattern = 3 -> strip(At(lines, fx.at))

\* a dangling value of Pattern C: non-empty, not a comment, not an if /
\* foreach / declare_args line, not a brace line, not an identifier followed
\* by = or +
IsEligibleValueC(v) ==
    /\ v # <<>>
    /\ v[1] \notin {"#", "{", "}"}
    /\ ~startswith(v, <<"i", "f">>)
    /\ ~startswith(v, <<"f", "o", "r", "e", "a", "c", "h">>)
    /\ ~startswith(v, <<"d", "e", "c", "l", "a", "r", "e", "_", "a", "r", "g", "s">>)
    /\ ~reAssignOrAppend(v)

\* C6: wherever a bare incomplete assignment <name> = is immediately
\* followed by a line whose content v is a quoted string, an array literal
\* or any other value eligible for Pattern C, Pattern C fires on that line;
\* and whenever Pattern C fires, the line before is a bare incomplete
\* assignment, the two lines collapse into one output line, <name> = v for
\* a quoted or bracketed v and <name> = "v" otherwise, the incomplete line
\* does not remain in the output, and i advances by 1.
C6_PatternC ==
    /\ \A k \in 1..(i - 1) :
          LET v == strip(At(lines, k))
          IN  ( /\ IsIncompleteLine(At(lines, k - 1))
                /\ (IsBracketed(v) \/ IsQuoted(v) \/ IsEligibleValueC(v)) )
                 => \E f \in DOMAIN fixed :
                        fixed[f].pattern = 3 /\ fixed[f].at = k
    /\ \A f \in DOMAIN fixed :
          fixed[f].pattern = 3 =>
              LET k == fixed[f].at
                  v == strip(At(lines, k))
                  name == reIncomplete(At(lines, k - 1)).var_name
                  head == name \o <<" ", "=", " ">>
              IN  /\ IsIncompleteLine(At(lines, k - 1))
                  /\ fixed[f].var_name = name
                  /\ Cardinality(PlacesOfFix(f)) = 1
                  /\ \A p \in PlacesOfFix(f) :
                       strip(new_lines[p]) =
                          IF IsBracketed(v) \/ IsQuoted(v)
                          THEN head \o v
                          ELSE head \o <<"\"">> \o v \o <<"\"">>
                  /\ PlacesOfCopy(k - 1) = {}
                  /\ PlacesOfCopy(k) = {}
                  /\ \E n \in DOMAIN visited :
                        visited[n] = k /\ PositionAfter(n) = k + 1

\* Pattern C fired on a quoted literal, the file was rewritten and holds
\* one line less than it did
C6_Witness ==
    /\ Returned
    /\ Last(calls).ret = TRUE
    /\ Len(new_lines) = Len(lines) - 1
    /\ \E f \in DOMAIN fixed :
          fixed[f].pattern = 3 /\ IsQuoted(DanglingOf(fixed[f]))

\* C7: at every point of the scan each input line below i is accounted for
\* exactly once, by its verbatim copy in new_lines or by exactly one fix
\* (the incomplete line Pattern C removes from new_lines by that fix), no
\* line at or above i is accounted for, and new_lines holds nothing but the
\* verbatim copies and one line per fix.
C7_LineAccounting ==
    /\ Len(origin) = Len(new_lines)
    /\ \A k \in 0..(Len(lines) - 1) :
          Cardinality(PlacesOfCopy(k))
            + Cardinality({f \in DOMAIN fixed : k \in Covered(fixed[f])})
              = IF k < i THEN 1 ELSE 0
    /\ \A p \in DOMAIN origin :
          IF origin[p].kind = "copy"
          THEN new_lines[p] = At(lines, origin[p].idx)
          ELSE /\ origin[p].idx \in DOMAIN fixed
               /\ PlacesOfFix(origin[p].idx) = {p}
    /\ \A f \in DOMAIN fixed : PlacesOfFix(f) # {}

\* a scan of four lines has ended in which Pattern C fired and another line
\* was copied
C7_Witness ==
    /\ Returned
    /\ Len(lines) = 4
    /\ \E f \in DOMAIN fixed : fixed[f].pattern = 3
    /\ \E k \in 0..3 : PlacesOfCopy(k) # {}

\* a line that begins with one of the block keywords
IsKeywordLine(v) ==
    \/ startswith(v, <<"i", "f">>)
    \/ startswith(v, <<"f", "o", "r", "e", "a", "c", "h">>)
    \/ startswith(v, <<"d", "e", "c", "l", "a", "r", "e", "_", "a", "r", "g", "s">>)

\* C8: no pattern fires with a line that begins with if, foreach or
\* declare_args as its dangling value, and every such line the scan has
\* passed is in the output as it was read.
C8_KeywordNeverDangling ==
    /\ \A f \in DOMAIN fixed : ~IsKeywordLine(DanglingOf(fixed[f]))
    /\ \A k \in 0..(i - 1) :
          IsKeywordLine(strip(At(lines, k))) =>
              \E p \in PlacesOfCopy(k) : new_lines[p] = At(lines, k)

\* the documented inputs: Pattern A with a bare value, Pattern A with an
\* array-like value, Pattern B with a reference, Pattern C with a quoted
\* literal, each followed by up to MaxContext further lines
Documented ==
    {doc \o ctx :
        doc \in {<<OpenerX, LnCloser, LnBare>>,
                 <<OpenerX, LnCloser, VArrayAB>>,
                 <<LnMarker, OpenerY, LnCloser, VBarVar>>,
                 <<IncompleteZ, VLiteral>>},
        ctx \in Files(Pool, MaxContext)}

\* C9: when the first run has repaired and rewritten a documented input, the
\* second run reads exactly the lines the first run built, fires no
\* pattern, builds the same lines, writes nothing, returns False, and the
\* file still holds the text the first run wrote.
C9_IdempotentOnScenarios ==
    \A a, b \in DOMAIN calls :
        ( /\ calls[a].run = 1
          /\ calls[b].run = 2
          /\ calls[a].file_path = calls[b].file_path
          /\ calls[a].read
          /\ calls[b].read
          /\ calls[a].lines \in Documented
          /\ calls[a].wrote = "ok" )
        => /\ calls[b].lines = calls[a].new_lines
           /\ calls[b].fixed = <<>>
           /\ calls[b].new_lines = calls[b].lines
           /\ calls[b].wrote = "none"
           /\ calls[b].ret = FALSE
           /\ \A w \in DOMAIN writes : writes[w].run = 1
           /\ disk[calls[b].file_path] = writelines(calls[a].new_lines)

\* the Pattern B scenario was repaired to  y = bar_var  by the first run
\* and the second run has gone over the result
C9_Witness ==
    \E a, b \in DOMAIN calls :
        /\ calls[a].run = 1
        /\ calls[b].run = 2
        /\ calls[b].read
        /\ calls[a].lines = <<LnMarker, OpenerY, LnCloser, VBarVar>>
        /\ calls[a].wrote = "ok"
        /\ calls[a].new_lines =
              <<(<<"y", " ", "=", " ", "b", "a", "r", "_", "v", "a", "r", "\n">>)>>

\* F1 or F2, for the path of either directory
FileName(path) ==
    IF path \in {"d1/F1.gni", "d2/F1.gni"} THEN "F1" ELSE "F2"

\* C10: every scan starts with modified = False, an empty new_lines and
\* i = 0, whatever the previous call left; and the two calls on a file (in
\* the directory walked F1 first and in the one walked F2 first) read the
\* same lines, fire the same fixes and build the same lines, and, when
\* neither met a write error, make the same write, return the same value
\* and leave the same text in the file.
C10_OrderIndependence ==
    /\ (pc = "scan" /\ visited = <<>>) =>
          (i = 0 /\ modified = FALSE /\ new_lines = <<>>)
    /\ \A a, b \in DOMAIN calls :
          ( /\ calls[a].run = 1
            /\ calls[b].run = 2
            /\ FileName(calls[a].file_path) = FileName(calls[b].file_path)
            /\ calls[a].read
            /\ calls[b].read )
          => /\ calls[a].lines = calls[b].lines
             /\ calls[a].fixed = calls[b].fixed
             /\ calls[a].new_lines = calls[b].new_lines
             /\ (calls[a].wrote # "failed" /\ calls[b].wrote # "failed")
                   => /\ calls[a].wrote = calls[b].wrote
                      /\ calls[a].ret = calls[b].ret
                      /\ disk[calls[a].file_path] = disk[calls[b].file_path]

\* both directories are done; F1 was repaired and F2 left alone, in the
\* directory where F1 came first and in the one where it came second
C10_Witness ==
    /\ Len(calls) = 4
    /\ \A c \in DOMAIN calls :
          /\ calls[c].read
          /\ calls[c].ret = (FileName(calls[c].file_path) = "F1")
          /\ calls[c].lines # <<>>
    /\ calls[1].file_path = "d1/F1.gni"
    /\ calls[3].file_path = "d2/F2.gni"

\* the step in which a call that could not read its file returns
ReadFailureStep ==
    /\ Len(calls') = Len(calls) + 1
    /\ ~Last(calls').read

\* C11: when a file cannot be read the call does nothing but report and
\* return False: it is the call on the file main's loop stands at, no scan
\* runs (no loop position is visited, nothing is built), no write is
\* attempted, every file holds what it held, and main does not count the
\* file as modified.
C11_ReadFailureSkips ==
    [][ReadFailureStep =>
           /\ Last(calls').file_path = At(gni_files, file_idx)
           /\ Last(calls').ret = FALSE
           /\ Last(calls').wrote = "none"
           /\ Last(calls').fixed = <<>>
           /\ disk' = disk
           /\ writes' = writes
           /\ visited' = visited
           /\ new_lines' = new_lines
           /\ pc' = "main"
           /\ modified_count' = modified_count]_vars

\* the first file of the directory, which holds a malformed shape, could
\* not be read and holds what it held; the second was then repaired
C11_Witness ==
    /\ Len(calls) = 2
    /\ ~calls[1].read
    /\ calls[1].ret = FALSE
    /\ \E k \in 0..(Len(readlines(disk[calls[1].file_path])) - 1) :
          Pattern1At(readlines(disk[calls[1].file_path]), k)
    /\ calls[2].read
    /\ calls[2].ret = TRUE

\* C12: when a pattern fired and the write of the result failed, the
\* function returns False and the file holds the text it held before the
\* call (the text that was read), neither truncated nor partly written.
C12_WriteFailureKeepsFile ==
    (Returned /\ Last(calls).wrote = "failed") =>
        /\ fixed # <<>>
        /\ Last(calls).ret = FALSE
        /\ disk[file_path] = writelines(lines)

\* the calls of the current invocation of the script that have returned
CallsOfRun ==
    SelectSeq(calls, LAMBDA c : c.run = run)

\* C13: whatever reads and writes fail, main's loop goes through its list
\* in order, one call per file: the calls that have returned (failed ones
\* included) are those on the first file_idx files of the list, one each,
\* in list order; after a call, main stands at the next file of the list
\* and a call under way is on that file; modified_count is the number of
\* calls that returned True.
C13_BatchProgress ==
    /\ pc \in {"main", "scan"}
    /\ file_idx <= Len(gni_files)
    /\ Len(CallsOfRun) = file_idx
    /\ \A n \in DOMAIN CallsOfRun :
          CallsOfRun[n].file_path = At(gni_files, n - 1)
    /\ pc = "scan" =>
          (file_idx < Len(gni_files) /\ file_path = At(gni_files, file_idx))
    /\ modified_count =
          Cardinality({n \in DOMAIN CallsOfRun : CallsOfRun[n].ret})

\* main has gone through a list of two files: the first could not be read
\* or could not be written, the second was repaired and is the one counted
C13_Witness ==
    /\ pc = "main"
    /\ file_idx = Len(gni_files)
    /\ Len(CallsOfRun) = 2
    /\ (~CallsOfRun[1].read \/ CallsOfRun[1].wrote = "failed")
    /\ CallsOfRun[2].ret = TRUE
    /\ modified_count = 1

\* the conditions of Patterns B and C at position k, each taken alone
ConditionB(ls, k) ==
    /\ k + 3 < Len(ls)
    /\ IsMarkerLine(At(ls, k))
    /\ IsOpenerLine(At(ls, k + 1))
    /\ IsCloserLine(At(ls, k + 2))
    /\ IsDangling(strip(At(ls, k + 3)))

ConditionC(ls, k) ==
    /\ k > 0
    /\ IsExpression(strip(At(ls, k)))
    /\ ~(IsCloserLine(At(ls, k - 1)) /\ k > 1)
    /\ IsIncompleteLine(strip(At(ls, k - 1)))

\* the first of the patterns A, B, C (1, 2, 3) whose condition holds at
\* position k, 0 when none does
FirstPattern(ls, k) ==
    IF Pattern1At(ls, k) THEN 1
    ELSE IF ConditionB(ls, k) THEN 2
    ELSE IF ConditionC(ls, k) THEN 3
    ELSE 0

\* C14: the scan visits increasing positions; at each position it visits,
\* the pattern that fires is the first of A, B, C whose condition holds
\* there and no other fires (none when no condition holds); every fix was
\* made at a visited position; and no input line is consumed by two fixes.
C14_TieBreak ==
    /\ \A n, m \in DOMAIN visited : n < m => visited[n] < visited[m]
    /\ \A n \in DOMAIN visited :
          LET k == visited[n]
              at == {f \in DOMAIN fixed : fixed[f].at = k}
          IN  /\ Cardinality(at) <= 1
              /\ FirstPattern(lines, k) = 0 => at = {}
              /\ FirstPattern(lines, k) # 0 =>
                    \E f \in at : fixed[f].pattern = FirstPattern(lines, k)
    /\ \A f \in DOMAIN fixed : \E n \in DOMAIN visited : visited[n] = fixed[f].at
    /\ \A f, g \in DOMAIN fixed :
          f # g => Covered(fixed[f]) \cap Covered(fixed[g]) = {}

\* Pattern B fired on the marker line of a file whose next three lines
\* stand in the shape of Pattern A, and it is the only fix of the scan
C14_Witness ==
    /\ Returned
    /\ Len(fixed) = 1
    /\ fixed[1].pattern = 2
    /\ Pattern1At(lines, fixed[1].at + 1)

\* C18: at every position i > 0 of the scan, testing the last line of the
\* output built so far for a bare incomplete assignment gives what testing
\* input line i-1 gives; and whenever Pattern C is about to fire at i, the
\* output is non-empty and its last line is the verbatim copy of input line
\* i-1, a bare incomplete assignment, so that the line tested is the line
\* discarded; after the fix that copy is no longer in the output.
C18_OutputLookup ==
    /\ (pc = "scan" /\ 0 < i /\ i < Len(lines)) =>
          /\ new_lines # <<>>
          /\ IsIncompleteLine(Last(new_lines))
                <=> IsIncompleteLine(At(lines, i - 1))
          /\ Pattern3At(lines, i) =>
                /\ Last(new_lines) = At(lines, i - 1)
                /\ Last(origin) = [kind |-> "copy", idx |-> i - 1]
                /\ IsIncompleteLine(Last(new_lines))
    /\ \A f \in DOMAIN fixed :
          fixed[f].pattern = 3 =>
              /\ IsIncompleteLine(At(lines, fixed[f].at - 1))
              /\ PlacesOfCopy(fixed[f].at - 1) = {}

\* Pattern C is about to fire a second time in a scan: the output holds the
\* line of the first fix and, after it, the incomplete line to discard
C18_Witness ==
    /\ pc = "scan"
    /\ i < Len(lines)
    /\ Pattern3At(lines, i)
    /\ Len(new_lines) >= 2
    /\ \E f \in DOMAIN fixed : fixed[f].pattern = 3

\* C19: wherever a bare incomplete assignment is followed by a line that is
\* non-empty, not a comment, not an if / foreach line and not an assignment,
\* Pattern C fires on that line: the incomplete line is not in the output
\* and one assignment to its name stands for the two lines.
C19_PatternCTrigger ==
    \A k \in 1..(i - 1) :
        ( /\ IsIncompleteLine(At(lines, k - 1))
          /\ IsEligibleValue(strip(At(lines, k))) )
        => /\ PlacesOfCopy(k - 1) = {}
           /\ PlacesOfCopy(k) = {}
           /\ \E f \in DOMAIN fixed :
                 /\ fixed[f].pattern = 3
                 /\ fixed[f].at = k
                 /\ \A p \in PlacesOfFix(f) :
                       IsAssignmentTo(new_lines[p],
                                      reIncomplete(At(lines, k - 1)).var_name)

\* the leading whitespace of a line
IndentOf(line) ==
    SubSeq(line, 1, SkipWhile(line, 1, Whitespace) - 1)

\* the assignment line a fix completes: the array opener for Patterns A and
\* B, the incomplete assignment for Pattern C
CompletedLine(fx) ==
    CASE fx.pattern = 1 -> At(lines, fx.at)
      [] fx.pattern = 2 -> At(lines, fx.at + 1)
      [] fx.pattern = 3 -> At(lines, fx.at - 1)

\* C20: every line a repair emits has exactly the leading whitespace of the
\* assignment line it completes.
C20_RepairKeepsIndent ==
    \A f \in DOMAIN fixed :
        \A p \in PlacesOfFix(f) :
            IndentOf(new_lines[p]) = IndentOf(CompletedLine(fixed[f]))

\* a comment line
IsCommentLine(line) ==
    startswith(strip(line), <<"#">>)

\* in ls an array as fix_incomplete_assignments creates it (marker comment,
\* opener, comment lines if any, closer) is immediately followed by a
\* dangling value line
ArrayThenDangling(ls) ==
    \E k, m \in 0..(Len(ls) - 2) :
        /\ k + 1 < m
        /\ IsMarkerLine(At(ls, k))
        /\ IsOpenerLine(At(ls, k + 1))
        /\ \A c \in (k + 2)..(m - 1) : IsCommentLine(At(ls, c))
        /\ IsCloserLine(At(ls, m))
        /\ IsEligibleValue(strip(At(ls, m + 1)))

\* C15: when fix_incomplete_assignments_in_file and then
\* fix_malformed_assignments_in_file have run on a file, each writing what
\* it built, no array of the file that results is immediately followed by
\* a dangling value line.
C15_PipelineRepairs ==
    \A a, b \in DOMAIN calls :
        ( /\ calls[a].run = 1
          /\ calls[b].run = 2
          /\ calls[a].file_path = calls[b].file_path
          /\ calls[a].read
          /\ calls[b].read
          /\ calls[a].wrote = "ok"
          /\ calls[b].wrote # "failed" )
        => /\ disk[calls[b].file_path] = writelines(calls[b].new_lines)
           /\ ~ArrayThenDangling(calls[b].new_lines)

\* the line matches one of the copyright patterns
MatchesCopyrightPattern(line) ==
    \E n \in DOMAIN copyright_patterns :
        contains(strip(lower(line)), copyright_patterns[n])

\* the line contains "The Brave Authors"
HasTheBraveAuthors(line) ==
    contains(line, <<"T", "h", "e", " ", "B", "r", "a", "v", "e", " ",
                     "A", "u", "t", "h", "o", "r", "s">>)

\* C16: in every file process_file has gone through, a line that matches a
\* copyright pattern and contains "The Brave Authors" is in the list built
\* as it was read, and a file that was rewritten holds it unchanged.
C16_BraveAuthorsPreserved ==
    \A c \in DOMAIN calls :
        calls[c].read =>
            \A n \in DOMAIN calls[c].lines :
                ( /\ MatchesCopyrightPattern(calls[c].lines[n])
                  /\ HasTheBraveAuthors(calls[c].lines[n]) )
                => /\ calls[c].modified_lines[n] = calls[c].lines[n]
                   /\ calls[c].wrote = "ok" =>
                         split(disk[calls[c].file_path])[n] = calls[c].lines[n]

\* C17: with --backup and without --dry-run, for every file that no longer
\* holds the text it held when its turn came, the file <path>.bak exists,
\* holds that text, and was written before the file was; with --dry-run
\* nothing is written, neither a file of the list nor a .bak file.
C17_BackupBeforeModify ==
    /\ (args.backup /\ ~args.dry_run) =>
          \A c \in DOMAIN calls :
              LET path == calls[c].file_path
              IN  disk[path] # calls[c].before =>
                     /\ (path \o BAK) \in DOMAIN disk
                     /\ disk[path \o BAK] = calls[c].before
                     /\ \E v, w \in DOMAIN writes :
                           /\ v < w
                           /\ writes[v].file_path = path \o BAK
                           /\ writes[v].ok
                           /\ writes[w].file_path = path
    /\ args.dry_run =>
          /\ writes = <<>>
          /\ DOMAIN disk = {PathBuild, PathGni}
          /\ \A c \in DOMAIN calls :
                disk[calls[c].file_path] = calls[c].before

(***************************************************************************)
(* The while loop of the scan: the subscripts it evaluates and its end.    *)
(***************************************************************************)
\* the indexes range(i - 2, max(0, i - 5), -1) yields, in order
LookbackRange(k) ==
    LET stop == IF k - 5 > 0 THEN k - 5 ELSE 0
    IN  [n \in 1..(IF k - 2 > stop THEN k - 2 - stop ELSE 0) |-> k - 1 - n]

\* the indexes the look-back loop of Pattern 3 reads: those of its range up
\* to and including the first array opener (break)
LookbackReads(ls, k) ==
    LET r == LookbackRange(k)
    IN  {r[n] : n \in {m \in DOMAIN r :
                         \A h \in 1..(m - 1) : ~reArrayOpen(At(ls, r[h])).ok}}

\* the subscripts of lines the iteration that starts at index k evaluates,
\* each under the conditions that precede it in the code (and is evaluated
\* left to right and stops at its first false operand)
ReadIndexes(ls, k) ==
    LET len == Len(ls)
        open(j) == reArrayOpen(At(ls, j)).ok
        closer(j) == strip(At(ls, j)) = <<"]">>
        outer1 == open(k) /\ k + 1 < len /\ closer(k + 1) /\ k + 2 < len
        marked == startswith(strip(At(ls, k)), MARKER)
        outer2 == /\ marked /\ k + 1 < len /\ open(k + 1)
                  /\ k + 2 < len /\ closer(k + 2) /\ k + 3 < len
        reaches3 == ~Pattern1At(ls, k) /\ ~Pattern2At(ls, k)
        looksBack == reaches3 /\ IsExpression(strip(At(ls, k))) /\ k > 0
    IN  {k}
        \cup (IF open(k) /\ k + 1 < len THEN {k + 1} ELSE {})
        \cup (IF outer1 THEN {k + 2} ELSE {})
        \cup (IF ~Pattern1At(ls, k) /\ marked /\ k + 1 < len
              THEN {k + 1} ELSE {})
        \cup (IF ~Pattern1At(ls, k) /\ marked /\ k + 1 < len /\ open(k + 1)
                 /\ k + 2 < len
              THEN {k + 2} ELSE {})
        \cup (IF ~Pattern1At(ls, k) /\ outer2 THEN {k + 3} ELSE {})
        \cup (IF looksBack THEN {k - 1} ELSE {})
        \cup (IF looksBack /\ closer(k - 1) /\ k > 1
              THEN LookbackReads(ls, k) ELSE {})

\* the index the scan is at after its n-th iteration
IndexAfter(n) ==
    IF n < Len(visited) THEN visited[n + 1] ELSE i

\* the scan is running or has just returned
ScanLocals ==
    pc = "scan" \/ Returned

\* a step of a call that has read its file: an iteration of the while
\* loop, or what follows the loop
ScanStep ==
    \/ Pattern1
    \/ Pattern2
    \/ Pattern3
    \/ CopyLine
    \/ WriteOk
    \/ WriteFail
    \/ NoChange

\* the lines the three patterns and the look-back are made of
ScanPool ==
    {LnOpener, LnCloser, LnMarker, LnBare, LnIncomplete}

\* one invocation on a directory that holds one file of lines of ScanPool
InitScan ==
    /\ gni_files = <<"a.gni">>
    /\ pending = <<>>
    /\ \E ls \in Files(ScanPool, MaxLines) :
           disk = [p \in {"a.gni"} |-> writelines(ls)]
    /\ InitLocals

\* a call that has read its file keeps executing: the code is sequential
\* and nothing in it waits
SpecFair ==
    InitScan /\ [][Next]_vars /\ WF_vars(ScanStep)

\* C21, its safety half: i starts at 0 and grows by 1, 3 or 4 at every
\* iteration, every iteration starts below the number of lines and reads
\* only indexes from 0 to the number of lines minus one, i never exceeds
\* the number of lines, and the loop has ended with i equal to it.
ScanInBounds ==
    ScanLocals =>
        /\ i <= Len(lines)
        /\ IndexAfter(0) = 0
        /\ \A n \in DOMAIN visited :
               /\ visited[n] < Len(lines)
               /\ IndexAfter(n) - visited[n] \in {1, 3, 4}
               /\ ReadIndexes(lines, visited[n]) \subseteq 0..(Len(lines) - 1)
        /\ Returned => i = Len(lines)

\* C21: the scan terminates on every input: whenever it runs, it returns,
\* and all along i grows by 1, 3 or 4 per iteration, the lines read are at
\* indexes below the number of lines, i never exceeds the number of lines
\* and equals it when the loop has ended.
C21_ScanTerminates ==
    /\ []ScanInBounds
    /\ (pc = "scan") ~> Returned

\* a scan of four lines has returned after two iterations, the first
\* of which fired Pattern 1 and advanced i by 3
C21_Witness ==
    /\ Returned
    /\ Len(lines) = 4
    /\ visited = <<0, 3>>
    /\ i = 4

(***************************************************************************)
(* The script run twice on one file of up to MaxLines lines, each a line   *)
(* of Pool or a lone opening bracket.                                      *)
(***************************************************************************)
RepeatPool ==
    Pool \cup {VBracket}

InitRepeat ==
    /\ gni_files = <<"a.gni">>
    /\ pending = <<gni_files>>
    /\ \E ls \in Files(RepeatPool, MaxLines) :
           disk = [p \in {"a.gni"} |-> writelines(ls)]
    /\ InitLocals

SpecRepeat ==
    InitRepeat /\ [][NextRuns]_vars

\* C22: for every input, a scan applied to the lines a first scan built
\* fires no pattern and builds the same lines: scan(scan(L)) = scan(L); no
\* line a repair emitted starts or completes a further instance of a
\* pattern.
C22_GeneralIdempotence ==
    \A a, b \in DOMAIN calls :
        ( /\ calls[a].run = 1
          /\ calls[b].run = 2
          /\ calls[a].file_path = calls[b].file_path
          /\ calls[a].read
          /\ calls[b].read
          /\ calls[b].lines = calls[a].new_lines )
        => /\ calls[b].fixed = <<>>
           /\ calls[b].new_lines = calls[a].new_lines

====
